---- MODULE Spec2Model ----
(***************************************************************************)
(* Model of src/lib/azure-document-intelligence-service.ts: the mapping of *)
(* a provider analysis result to a canonical tax record, the OCR text      *)
(* recovery, the address decomposer, the typed wrappers and the lazily     *)
(* constructed service instance.                                           *)
(*                                                                         *)
(* JavaScript strings are TLA+ strings (TLC evaluates Len, SubSeq and \o   *)
(* on them).  A JavaScript value is a tagged record: Str(s), Num(m, e)     *)
(* (the decimal m / 10^e, normalised) or Undef.  An object is a function   *)
(* from its keys to values; an absent key is a key outside DOMAIN.         *)
(***************************************************************************)
EXTENDS Integers, Sequences, FiniteSets, TLC

(***************************************************************************)
(* Characters and strings                                                  *)
(***************************************************************************)
\* const x = v; ...: the rest F of a block with the value v of a local
Let(v, F(_)) == F(v)

\* the character of s at position i (1-based), "" outside the string
Ch(s, i) == IF i \in 1..Len(s) THEN SubSeq(s, i, i) ELSE ""

Digits == {"0", "1", "2", "3", "4", "5", "6", "7", "8", "9"}

Upper == {"A", "B", "C", "D", "E", "F", "G", "H", "I", "J", "K", "L", "M",
          "N", "O", "P", "Q", "R", "S", "T", "U", "V", "W", "X", "Y", "Z"}

Lower == {"a", "b", "c", "d", "e", "f", "g", "h", "i", "j", "k", "l", "m",
          "n", "o", "p", "q", "r", "s", "t", "u", "v", "w", "x", "y", "z"}

Letters == Upper \cup Lower

\* \s of a regular expression, and the white space String.prototype.trim strips
Space == {" ", "\n", "\t", "\r"}

\* \w of a regular expression
WordCh == Letters \cup Digits \cup {"_"}

LowerOf ==
  [A |-> "a", B |-> "b", C |-> "c", D |-> "d", E |-> "e", F |-> "f", G |-> "g",
   H |-> "h", I |-> "i", J |-> "j", K |-> "k", L |-> "l", M |-> "m", N |-> "n",
   O |-> "o", P |-> "p", Q |-> "q", R |-> "r", S |-> "s", T |-> "t", U |-> "u",
   V |-> "v", W |-> "w", X |-> "x", Y |-> "y", Z |-> "z"]

UpperOf ==
  [a |-> "A", b |-> "B", c |-> "C", d |-> "D", e |-> "E", f |-> "F", g |-> "G",
   h |-> "H", i |-> "I", j |-> "J", k |-> "K", l |-> "L", m |-> "M", n |-> "N",
   o |-> "O", p |-> "P", q |-> "Q", r |-> "R", s |-> "S", t |-> "T", u |-> "U",
   v |-> "V", w |-> "W", x |-> "X", y |-> "Y", z |-> "Z"]

\* the same letter in the other case
OtherCase(c) ==
  IF c \in Upper THEN LowerOf[c] ELSE IF c \in Lower THEN UpperOf[c] ELSE c

\* canonical case of a character under the i flag
Fold(c) == IF c \in Upper THEN LowerOf[c] ELSE c

DigitVal ==
  [c \in Digits |-> CASE c = "0" -> 0 [] c = "1" -> 1 [] c = "2" -> 2
                      [] c = "3" -> 3 [] c = "4" -> 4 [] c = "5" -> 5
                      [] c = "6" -> 6 [] c = "7" -> 7 [] c = "8" -> 8
                      [] c = "9" -> 9]

\* String.prototype.toUpperCase
RECURSIVE ToUpperCase(_)
ToUpperCase(s) ==
  IF s = "" THEN ""
  ELSE (IF Head(s) \in Lower THEN UpperOf[Head(s)] ELSE Head(s))
       \o ToUpperCase(Tail(s))

RECURSIVE TrimStart(_)
TrimStart(s) ==
  IF s # "" /\ Ch(s, 1) \in Space THEN TrimStart(Tail(s)) ELSE s

RECURSIVE TrimEnd(_)
TrimEnd(s) ==
  IF s # "" /\ Ch(s, Len(s)) \in Space
  THEN TrimEnd(SubSeq(s, 1, Len(s) - 1)) ELSE s

\* String.prototype.trim
Trim(s) == TrimEnd(TrimStart(s))

\* String.prototype.includes for a single character
Includes(s, c) == \E i \in 1..Len(s) : Ch(s, i) = c

\* String.prototype.split on a single character
Split(s, c) ==
  LET cuts == {i \in 1..Len(s) : Ch(s, i) = c}
      \* the position of the n-th separator; 0 before the first part and
      \* Len(s) + 1 after the last one
      Cut(n) == IF n = 0 THEN 0
                ELSE IF n > Cardinality(cuts) THEN Len(s) + 1
                ELSE CHOOSE i \in cuts : Cardinality({j \in cuts : j < i}) = n - 1
  IN [n \in 1..(Cardinality(cuts) + 1) |-> SubSeq(s, Cut(n - 1) + 1, Cut(n) - 1)]

\* Array.prototype.join
RECURSIVE Join(_, _)
Join(parts, sep) ==
  IF parts = <<>> THEN ""
  ELSE IF Len(parts) = 1 THEN parts[1]
  ELSE parts[1] \o sep \o Join(Tail(parts), sep)

(***************************************************************************)
(* Regular expressions.  A pattern of the source is written as a tree of   *)
(* the nodes below; Match is the backtracking matcher of ECMAScript: the   *)
(* alternatives are tried in order, a greedy quantifier tries one more     *)
(* iteration first and a lazy one tries the continuation first, and the    *)
(* first successful path decides the captures.                             *)
(***************************************************************************)
\* upper bound of an unbounded quantifier
Unbounded == 0 - 1

Lit(s) == [t |-> "lit", s |-> s]
Set(cs) == [t |-> "set", cs |-> cs, neg |-> FALSE]
NotSet(cs) == [t |-> "set", cs |-> cs, neg |-> TRUE]
Cat(rs) == [t |-> "cat", rs |-> rs]
Alt(rs) == [t |-> "alt", rs |-> rs]
Rep(r, min, max) == [t |-> "rep", r |-> r, min |-> min, max |-> max, lazy |-> FALSE, at |-> 0]
RepLazy(r, min, max) == [t |-> "rep", r |-> r, min |-> min, max |-> max, lazy |-> TRUE, at |-> 0]
Star(r) == Rep(r, 0, Unbounded)
Plus(r) == Rep(r, 1, Unbounded)
Opt(r) == Rep(r, 0, 1)
StarLazy(r) == RepLazy(r, 0, Unbounded)
PlusLazy(r) == RepLazy(r, 1, Unbounded)
Grp(n, r) == [t |-> "grp", n |-> n, r |-> r]
Bol == [t |-> "bol"]
Eol == [t |-> "eol"]
Wb == [t |-> "wb"]

\* \s, \d inside patterns
S == Set(Space)
D == Set(Digits)

\* the largest capture group number of any pattern of the source
MaxGroups == 4

NoCaps == [n \in 1..MaxGroups |-> <<0, 0>>]

NoMatch == [ok |-> FALSE, from |-> 0, end |-> 0, caps |-> NoCaps]

\* does character c belong to the class cs (ci: the i flag)
InClass(c, cs, ci) ==
  c # "" /\ (c \in cs \/ (ci /\ OtherCase(c) \in cs))

\* does the literal lit occur in s at position i
LitAt(s, lit, i, ci) ==
  /\ i + Len(lit) - 1 <= Len(s)
  /\ \A j \in 1..Len(lit) :
       IF ci THEN Fold(Ch(s, i + j - 1)) = Fold(Ch(lit, j))
       ELSE Ch(s, i + j - 1) = Ch(lit, j)

IsWordAt(s, i) == Ch(s, i) \in WordCh

Min(ns) == CHOOSE n \in ns : \A o \in ns : n <= o

Max(ns) == CHOOSE n \in ns : \A o \in ns : n >= o

\* the pair of rs with the least and with the greatest first component
First(rs) == CHOOSE r \in rs : \A o \in rs : r[1] <= o[1]

Last(rs) == CHOOSE r \in rs : \A o \in rs : r[1] >= o[1]

Dec(max) == IF max = Unbounded THEN Unbounded ELSE max - 1

\* Match the sequence of nodes k (the node at hand followed by its
\* continuation) against s from position i on.
RECURSIVE Match(_, _, _, _, _)
Match(s, ci, k, i, caps) ==
  IF k = <<>> THEN [ok |-> TRUE, from |-> 0, end |-> i, caps |-> caps]
  ELSE
    LET h == Head(k)
        rest == Tail(k)
    IN CASE h.t = "lit" ->
              IF LitAt(s, h.s, i, ci) THEN Match(s, ci, rest, i + Len(h.s), caps)
              ELSE NoMatch
         [] h.t = "set" ->
              IF i <= Len(s) /\ (InClass(Ch(s, i), h.cs, ci) # h.neg)
              THEN Match(s, ci, rest, i + 1, caps)
              ELSE NoMatch
         [] h.t = "cat" -> Match(s, ci, h.rs \o rest, i, caps)
         [] h.t = "alt" ->
              IF h.rs = <<>> THEN NoMatch
              ELSE LET first == Match(s, ci, <<Head(h.rs)>> \o rest, i, caps)
                   IN IF first.ok THEN first
                      ELSE Match(s, ci, <<Alt(Tail(h.rs))>> \o rest, i, caps)
         [] h.t = "rep" /\ h.r.t = "set" ->
              \* a quantified character class: run is the longest run of
              \* class characters at i; the continuation is tried after
              \* each admissible number of them, most first when greedy
              LET limit == IF h.max = Unbounded \/ h.max > Len(s) - i + 1
                           THEN Len(s) - i + 1 ELSE h.max
                  In(n) == InClass(Ch(s, i + n), h.r.cs, ci) # h.r.neg
                  run == CHOOSE n \in 0..limit :
                           /\ n = limit \/ ~In(n)
                           /\ \A o \in 0..(n - 1) : In(o)
                  res == {<<n, Match(s, ci, rest, i + n, caps)>> : n \in h.min..run}
                  oks == {r \in res : r[2].ok}
              IN IF oks = {} THEN NoMatch
                 ELSE IF h.lazy THEN First(oks)[2] ELSE Last(oks)[2]
         [] h.t = "rep" /\ h.r.t # "set" ->
              LET again == [h EXCEPT !.min = IF h.min > 0 THEN h.min - 1 ELSE 0,
                                     !.max = Dec(h.max), !.at = i]
                  more == Match(s, ci, <<h.r, again>> \o rest, i, caps)
                  stop == Match(s, ci, rest, i, caps)
              IN IF h.min > 0 THEN more
                 ELSE IF h.at = i THEN NoMatch  \* an empty iteration is rejected
                 ELSE IF h.max = 0 THEN stop
                 ELSE IF h.lazy THEN (IF stop.ok THEN stop ELSE more)
                 ELSE (IF more.ok THEN more ELSE stop)
         [] h.t = "grp" ->
              Match(s, ci, <<h.r, [t |-> "close", n |-> h.n, from |-> i]>> \o rest, i, caps)
         [] h.t = "close" ->
              Match(s, ci, rest, i, [caps EXCEPT ![h.n] = <<h.from, i>>])
         [] h.t = "bol" -> IF i = 1 THEN Match(s, ci, rest, i, caps) ELSE NoMatch
         [] h.t = "eol" -> IF i = Len(s) + 1 THEN Match(s, ci, rest, i, caps) ELSE NoMatch
         [] h.t = "wb" ->
              IF IsWordAt(s, i - 1) # IsWordAt(s, i)
              THEN Match(s, ci, rest, i, caps) ELSE NoMatch

\* the leftmost match of pattern re in s at or after position p
SearchFrom(s, ci, re, p) ==
  Let({r \in {<<q, Match(s, ci, <<re>>, q, NoCaps)>> : q \in p..(Len(s) + 1)} : r[2].ok},
      LAMBDA oks :
        IF oks = {} THEN NoMatch
        ELSE Let(First(oks), LAMBDA f : [f[2] EXCEPT !.from = f[1]]))

\* String.prototype.match with a pattern without the g flag (ci: its i flag)
Search(s, ci, re) == SearchFrom(s, ci, re, 1)

\* is capture group n of match m defined
HasGroup(m, n) == m.caps[n][1] > 0

\* match[n]: the text of capture group n ("" when it did not take part)
Group(s, m, n) ==
  IF HasGroup(m, n) THEN SubSeq(s, m.caps[n][1], m.caps[n][2] - 1) ELSE ""

\* String.prototype.replace with a pattern with the g flag and a constant
\* replacement text
RECURSIVE ReplaceFrom(_, _, _, _, _)
ReplaceFrom(s, ci, re, repl, p) ==
  Let(SearchFrom(s, ci, re, p), LAMBDA m :
    IF ~m.ok THEN SubSeq(s, p, Len(s))
    ELSE IF m.end = m.from
      THEN SubSeq(s, p, m.from - 1) \o repl \o Ch(s, m.from)
           \o (IF m.from > Len(s) THEN ""
               ELSE ReplaceFrom(s, ci, re, repl, m.from + 1))
    ELSE SubSeq(s, p, m.from - 1) \o repl
         \o ReplaceFrom(s, ci, re, repl, m.end))

ReplaceAll(s, ci, re, repl) == ReplaceFrom(s, ci, re, repl, 1)

\* String.prototype.replace with a pattern without the g flag
ReplaceFirst(s, ci, re, repl) ==
  Let(Search(s, ci, re), LAMBDA m :
    IF ~m.ok THEN s
    ELSE SubSeq(s, 1, m.from - 1) \o repl \o SubSeq(s, m.end, Len(s)))

(***************************************************************************)
(* JavaScript values                                                       *)
(***************************************************************************)
\* a string
Str(s) == [t |-> "str", s |-> s, m |-> 0, e |-> 0]

\* the finite number m / 10^e; Norm makes the representation unique
Num(m, e) == [t |-> "num", s |-> "", m |-> m, e |-> e]

\* +Infinity (sign 1) and -Infinity (sign -1)
Inf(sign) == [t |-> "inf", s |-> "", m |-> sign, e |-> 0]

NaN == [t |-> "nan", s |-> "", m |-> 0, e |-> 0]

Undef == [t |-> "undef", s |-> "", m |-> 0, e |-> 0]

\* a value that is neither a string nor a number nor undefined
Obj == [t |-> "obj", s |-> "", m |-> 0, e |-> 0]

Whole(n) == Num(n, 0)

\* typeof v
TypeOf(v) ==
  CASE v.t = "str" -> "string"
    [] v.t \in {"num", "inf", "nan"} -> "number"
    [] v.t = "undef" -> "undefined"
    [] v.t = "obj" -> "object"

\* ToBoolean(v): the test of if (v), !v and v || d
Truthy(v) ==
  CASE v.t = "str" -> v.s # ""
    [] v.t = "num" -> v.m # 0
    [] v.t = "inf" -> TRUE
    [] v.t = "nan" -> FALSE
    [] v.t = "undef" -> FALSE
    [] v.t = "obj" -> TRUE

\* v > 0 for a number v
Positive(v) == v.t \in {"num", "inf"} /\ v.m > 0

\* v || d
OrElse(v, d) == IF Truthy(v) THEN v ELSE d

RECURSIVE Pow10(_)
Pow10(n) == IF n <= 0 THEN 1 ELSE 10 * Pow10(n - 1)

RECURSIVE Norm(_, _)
Norm(m, e) ==
  IF e < 0 THEN Norm(m * Pow10(0 - e), 0)
  ELSE IF m = 0 THEN Num(0, 0)
  ELSE IF e > 0 /\ m % 10 = 0 THEN Norm(m \div 10, e - 1)
  ELSE Num(m, e)

\* the number of digits of s from position p on
RECURSIVE DigitRun(_, _)
DigitRun(s, p) == IF Ch(s, p) \in Digits THEN 1 + DigitRun(s, p + 1) ELSE 0

\* the value of the n digits of s that start at position p, after acc
RECURSIVE DigitsValue(_, _, _, _)
DigitsValue(s, p, n, acc) ==
  IF n = 0 THEN acc
  ELSE DigitsValue(s, p + 1, n - 1, 10 * acc + DigitVal[Ch(s, p)])

\* the global parseFloat: the longest prefix of the trimmed text that is a
\* decimal literal (sign, digits, fraction, exponent, or Infinity)
ParseFloat(s) ==
  Let(TrimStart(s), LAMBDA t :
  Let(IF Ch(t, 1) = "-" THEN 0 - 1 ELSE 1, LAMBDA sign :
  Let(IF Ch(t, 1) \in {"-", "+"} THEN 2 ELSE 1, LAMBDA p :
  Let(DigitRun(t, p), LAMBDA n1 :
  Let(Ch(t, p + n1) = ".", LAMBDA dot :
  Let(IF dot THEN DigitRun(t, p + n1 + 1) ELSE 0, LAMBDA n2 :
  Let(IF dot THEN p + n1 + 1 + n2 ELSE p + n1, LAMBDA q :
  Let(IF Ch(t, q + 1) \in {"-", "+"} THEN q + 2 ELSE q + 1, LAMBDA ep :
  Let(IF Ch(t, q) \in {"e", "E"} THEN DigitRun(t, ep) ELSE 0, LAMBDA n3 :
  Let((IF Ch(t, q + 1) = "-" THEN 0 - 1 ELSE 1) * DigitsValue(t, ep, n3, 0), LAMBDA ex :
  Let(DigitsValue(t, p + n1 + 1, n2, DigitsValue(t, p, n1, 0)), LAMBDA mant :
    IF SubSeq(t, p, IF p + 7 <= Len(t) THEN p + 7 ELSE Len(t)) = "Infinity"
      THEN Inf(sign)
    ELSE IF n1 = 0 /\ n2 = 0 THEN NaN
    ELSE Norm(sign * mant, n2 - ex))))))))))))

(***************************************************************************)
(* Objects: ExtractedFieldData and the provider's field map                *)
(***************************************************************************)
EmptyObject == [k \in {} |-> Undef]

Has(o, k) == k \in DOMAIN o

\* o[k] (o.k), undefined when o has no key k
Get(o, k) == IF k \in DOMAIN o THEN o[k] ELSE Undef

\* o[k] = v
Put(o, k, v) == [x \in DOMAIN o \cup {k} |-> IF x = k THEN v ELSE o[x]]

\* fields[name]?.value
FieldValue(fields, name) ==
  IF name \in DOMAIN fields THEN fields[name].value ELSE Undef

(***************************************************************************)
(* Amount Normalizer                                                       *)
(***************************************************************************)
parseAmount(value) ==
  IF TypeOf(value) = "number" THEN value
  ELSE IF TypeOf(value) = "string"
    THEN Let(ReplaceAll(value.s, FALSE, Set({"$", ","} \cup Space), ""), LAMBDA cleaned :
         Let(ParseFloat(cleaned), LAMBDA parsed :
           IF parsed.t = "nan" THEN Whole(0) ELSE parsed))
  ELSE Whole(0)

(***************************************************************************)
(* Wage recovery from the OCR text                                         *)
(***************************************************************************)
\* [,\s]
CommaOrSpace == Set({","} \cup Space)

\* [:\s]
ColonOrSpace == Set({":"} \cup Space)

\* ([\d,]+\.?\d*)
AmountGroup == Grp(1, Cat(<<Plus(Set(Digits \cup {","})), Opt(Lit(".")), Star(D)>>))

\* Wages[,\s]*tips[,\s]*other\s+
WagesTipsOther ==
  Cat(<<Lit("Wages"), Star(CommaOrSpace), Lit("tips"), Star(CommaOrSpace),
        Lit("other"), Plus(S)>>)

wagePatterns ==
  << Cat(<<Wb, Lit("1"), Plus(S), WagesTipsOther, Lit("comp."), Plus(S), AmountGroup>>),
     Cat(<<Wb, Lit("1"), Plus(S), WagesTipsOther, Lit("compensation"), Plus(S), AmountGroup>>),
     Cat(<<Wb, Lit("1"), Opt(Lit(".")), Star(S), WagesTipsOther, Lit("compensation"),
           Plus(ColonOrSpace), Opt(Lit("$")), AmountGroup>>),
     Cat(<<Wb, Lit("1"), Opt(Lit(".")), Star(S), WagesTipsOther, Lit("comp."),
           Plus(ColonOrSpace), Opt(Lit("$")), AmountGroup>>),
     Cat(<<Wb, Opt(Cat(<<Lit("Box"), Star(S)>>)), Lit("1"), Plus(S), Opt(Lit("$")), AmountGroup>>),
     Cat(<<Lit("Wages"), Plus(S), Lit("and"), Plus(S), Lit("tips"), Plus(S),
           Opt(Lit("$")), AmountGroup>>),
     Cat(<<Wb, Lit("1"), Plus(S), WagesTipsOther, Lit("compensation"), Plus(S),
           Opt(Lit("$")), AmountGroup>>),
     Cat(<<Wb, Lit("1"), Plus(S), WagesTipsOther, Lit("comp."), Plus(S),
           Opt(Lit("$")), AmountGroup>>) >>

\* faulty variant: an amount of zero is taken as well
WageOfPatternOrZero(ocrText, pattern) ==
  Let(Search(ocrText, TRUE, pattern), LAMBDA match :
  Let(Group(ocrText, match, 1), LAMBDA wageString :
    IF match.ok /\ wageString # ""
    THEN ParseFloat(ReplaceAll(wageString, FALSE, Set({",", "$"} \cup Space), ""))
    ELSE NaN))

\* the body of the loop over wagePatterns for one pattern: the parsed amount
\* when the pattern matches and its capture parses to a positive number,
\* NaN otherwise
WageOfPattern(ocrText, pattern) ==
  Let(Search(ocrText, TRUE, pattern), LAMBDA match :
  Let(Group(ocrText, match, 1), LAMBDA wageString :
    IF match.ok /\ wageString # ""
    THEN Let(ReplaceAll(wageString, FALSE, Set({",", "$"} \cup Space), ""),
             LAMBDA cleanedAmount :
         Let(ParseFloat(cleanedAmount), LAMBDA parsedAmount :
           IF parsedAmount.t # "nan" /\ Positive(parsedAmount)
           THEN parsedAmount ELSE NaN))
    ELSE NaN))

RECURSIVE WagesFrom(_, _, _)
WagesFrom(ocrText, patterns, i) ==
  IF i > Len(patterns) THEN Whole(0)
  ELSE Let(WageOfPattern(ocrText, patterns[i]), LAMBDA w :
         IF w.t # "nan" THEN w ELSE WagesFrom(ocrText, patterns, i + 1))

extractWagesFromOCR(ocrText) == WagesFrom(ocrText, wagePatterns, 1)

(***************************************************************************)
(* Personal information recovery from the OCR text                         *)
(***************************************************************************)
\* the words ws separated by \s+
Words(ws) ==
  Cat([i \in 1..(2 * Len(ws) - 1) |->
         IF i % 2 = 1 THEN Lit(ws[(i + 1) \div 2]) ELSE Plus(S)])

\* [A-Z\s], [A-Za-z\s], [^\n]
UpperOrSpace == Set(Upper \cup Space)
LetterOrSpace == Set(Letters \cup Space)
NotNewline == NotSet({"\n"})

\* Employee's\s+first\s+name\s+and\s+initial
FirstNameLabel == Words(<<"Employee's", "first", "name", "and", "initial">>)

\* Employee's\s+name,\s+address\s+and\s+ZIP\s+code
NameAddressLabel == Words(<<"Employee's", "name,", "address", "and", "ZIP", "code">>)

\* Employee's\s+social\s+security\s+number
EmployeeSsnLabel == Words(<<"Employee's", "social", "security", "number">>)

\* (\d{3}-\d{2}-\d{4})
DashedSsnGroup == Grp(1, Cat(<<Rep(D, 3, 3), Lit("-"), Rep(D, 2, 2), Lit("-"), Rep(D, 4, 4)>>))

\* (\d{9,10})
PlainSsnGroup == Grp(1, Rep(D, 9, 10))

namePatterns ==
  << Cat(<<Lit("e"), Plus(S), FirstNameLabel, Plus(S),
           Grp(1, Cat(<<Set(Upper), PlusLazy(UpperOrSpace)>>)),
           Plus(S), Words(<<"Last", "name">>), Plus(S),
           Grp(2, Cat(<<Set(Upper), PlusLazy(UpperOrSpace)>>)),
           Alt(<<Cat(<<Plus(S), D>>), Lit("\n"),
                 Words(<<"f", "Employee's", "address">>), Eol>>)>>),
     Cat(<<Alt(<<Lit("e/f"), Lit("e/f")>>), Plus(S), NameAddressLabel, Plus(S),
           Grp(1, Cat(<<Set(Upper), PlusLazy(UpperOrSpace)>>)),
           Alt(<<Cat(<<Plus(S), Rep(D, 3, 4)>>), Lit("\n"), Eol>>)>>),
     Cat(<<Alt(<<Lit("e"), Lit("e")>>), Plus(S), FirstNameLabel, Plus(S),
           Words(<<"Last", "name">>), Plus(S),
           Grp(1, PlusLazy(LetterOrSpace)),
           Alt(<<Cat(<<Plus(S), D>>), Lit("\n"), Words(<<"Employee's", "address">>), Eol>>)>>),
     Cat(<<FirstNameLabel, Plus(S), Words(<<"Last", "name">>), Plus(S),
           Grp(1, PlusLazy(LetterOrSpace)),
           Alt(<<Cat(<<Plus(S), D>>), Lit("\n"), Words(<<"Employee's", "address">>), Eol>>)>>),
     Cat(<<Lit("Employee"), Plus(ColonOrSpace),
           Grp(1, PlusLazy(LetterOrSpace)),
           Alt(<<Lit("\n"), Words(<<"Employee's", "address">>),
                 Words(<<"Employee's", "social">>), Lit("SSN"), Lit("Social"),
                 Lit("Address"), Eol>>)>>),
     Cat(<<Words(<<"Employee", "Name">>), Plus(ColonOrSpace),
           Grp(1, PlusLazy(LetterOrSpace)),
           Alt(<<Lit("\n"), Words(<<"Employee's", "address">>),
                 Words(<<"Employee's", "social">>), Lit("SSN"), Lit("Social"),
                 Lit("Address"), Eol>>)>>) >>

\* the patterns with their i flag
ssnPatterns ==
  << <<TRUE, Cat(<<Lit("a"), Plus(S), EmployeeSsnLabel, Plus(S), PlainSsnGroup>>)>>,
     <<TRUE, Cat(<<EmployeeSsnLabel, Star(S), Lit("\n"), DashedSsnGroup>>)>>,
     <<TRUE, Cat(<<Words(<<"social", "security", "number">>), Star(S), Lit("\n"),
                   DashedSsnGroup>>)>>,
     <<TRUE, Cat(<<EmployeeSsnLabel, Plus(S), PlainSsnGroup>>)>>,
     <<TRUE, Cat(<<Words(<<"social", "security", "number">>), Plus(S), PlainSsnGroup>>)>>,
     <<TRUE, Cat(<<Lit("SSN"), Star(ColonOrSpace), DashedSsnGroup>>)>>,
     <<TRUE, Cat(<<Words(<<"Social", "Security">>), Star(ColonOrSpace), DashedSsnGroup>>)>>,
     <<FALSE, DashedSsnGroup>> >>

\* [^\n]+(?:\n[^\n]+)*?
LinesLazy == Cat(<<Plus(NotNewline), StarLazy(Cat(<<Lit("\n"), Plus(NotNewline)>>))>>)

addressPatterns ==
  << Cat(<<Lit("f"), Plus(S), Words(<<"Employee's", "address", "and", "ZIP", "code">>),
           Plus(S), Grp(1, PlusLazy(NotNewline)),
           Alt(<<Lit("\n"), Words(<<"a", "Employee's", "social">>), Eol>>)>>),
     Cat(<<Alt(<<Lit("e/f"), Lit("e/f")>>), Plus(S), NameAddressLabel, Plus(S),
           Set(Upper), PlusLazy(UpperOrSpace), Plus(S),
           Grp(1, Cat(<<D, StarLazy(NotNewline)>>)),
           Alt(<<Lit("\n"), Eol>>)>>),
     Cat(<<Alt(<<Lit("e"), Lit("e")>>), Plus(S), FirstNameLabel, Plus(S),
           Words(<<"Last", "name">>), Plus(S), PlusLazy(LetterOrSpace), Plus(S),
           Grp(1, Cat(<<D, StarLazy(NotNewline)>>)),
           Alt(<<Lit("\n"), Eol>>)>>),
     Cat(<<Grp(1, Plus(LetterOrSpace)), Plus(S),
           Grp(2, Cat(<<D, StarLazy(NotNewline)>>)),
           Opt(Cat(<<Lit("\n"),
                     Grp(3, Cat(<<Plus(LetterOrSpace), Rep(Set(Upper), 2, 2), Plus(S),
                                  Rep(D, 5, 5),
                                  Opt(Cat(<<Lit("-"), Rep(D, 4, 4)>>))>>))>>))>>),
     Cat(<<Words(<<"Employee's", "address", "and", "ZIP", "code">>), Star(S), Lit("\n"),
           Grp(1, LinesLazy),
           Alt(<<Cat(<<Lit("\n"), Star(S), Lit("\n")>>), Words(<<"Employee's", "social">>),
                 Lit("Employer"), Eol>>)>>),
     Cat(<<Words(<<"Employee's", "address">>), Star(NotNewline), Lit("\n"),
           Grp(1, Cat(<<Plus(NotNewline),
                        StarLazy(Cat(<<Lit("\n"), Set(Digits \cup Letters),
                                       Star(NotNewline)>>))>>)),
           Alt(<<Cat(<<Lit("\n"), Star(S), Lit("\n")>>), Words(<<"Employee's", "social">>),
                 Lit("Employer"), Eol>>)>>),
     Cat(<<Words(<<"address", "and", "ZIP", "code">>), Star(NotNewline), Lit("\n"),
           Grp(1, LinesLazy),
           Alt(<<Cat(<<Lit("\n"), Star(S), Lit("\n")>>), Words(<<"social", "security">>),
                 Lit("Employer"), Eol>>)>>),
     Cat(<<Lit("Address"), Plus(ColonOrSpace),
           Grp(1, LinesLazy),
           Alt(<<Lit("\n\n"), Lit("Employee"), Lit("Employer"), Eol>>)>>) >>

\* .replace(/\s+/g, ' ')
CollapseSpace(s) == ReplaceAll(s, FALSE, Plus(S), " ")

\* the loop over namePatterns from pattern i on; found tells whether a
\* pattern fired (the cleaned name itself may be empty)
RECURSIVE NameFrom(_, _, _)
NameFrom(ocrText, patterns, i) ==
  IF i > Len(patterns) THEN [found |-> FALSE, name |-> ""]
  ELSE Let(Search(ocrText, TRUE, patterns[i]), LAMBDA match :
       Let(Group(ocrText, match, 1), LAMBDA first :
       Let(Group(ocrText, match, 2), LAMBDA last :
         IF match.ok /\ first # ""
         THEN [found |-> TRUE,
               name |-> CollapseSpace(IF last # ""
                                      THEN Trim(first) \o " " \o Trim(last)
                                      ELSE Trim(first))]
         ELSE NameFrom(ocrText, patterns, i + 1))))

\* the loop over ssnPatterns from pattern i on
RECURSIVE SsnFrom(_, _, _)
SsnFrom(ocrText, patterns, i) ==
  IF i > Len(patterns) THEN ""
  ELSE Let(Search(ocrText, patterns[i][1], patterns[i][2]), LAMBDA match :
       Let(Group(ocrText, match, 1), LAMBDA ssn :
         IF match.ok /\ ssn # "" THEN ssn
         ELSE SsnFrom(ocrText, patterns, i + 1)))

\* the loop over addressPatterns from pattern i on; found tells whether a
\* pattern fired (the cleaned address itself may be empty)
RECURSIVE AddressFrom(_, _, _)
AddressFrom(ocrText, patterns, i) ==
  IF i > Len(patterns) THEN [found |-> FALSE, address |-> ""]
  ELSE Let(Search(ocrText, TRUE, patterns[i]), LAMBDA match :
       Let(Group(ocrText, match, 1), LAMBDA lines :
         IF match.ok /\ lines # ""
         THEN [found |-> TRUE,
               address |-> CollapseSpace(ReplaceAll(Trim(lines), FALSE, Lit("\n"), " "))]
         ELSE AddressFrom(ocrText, patterns, i + 1)))

\* the result object: a key is present when its loop assigned it
extractPersonalInfoFromOCR(ocrText) ==
  Let(NameFrom(ocrText, namePatterns, 1), LAMBDA name :
  Let(SsnFrom(ocrText, ssnPatterns, 1), LAMBDA ssn :
  Let(AddressFrom(ocrText, addressPatterns, 1), LAMBDA addr :
    [k \in (IF name.found THEN {"name"} ELSE {})
           \cup (IF ssn # "" THEN {"ssn"} ELSE {})
           \cup (IF addr.found THEN {"address"} ELSE {}) |->
       CASE k = "name" -> Str(name.name)
         [] k = "ssn" -> Str(ssn)
         [] k = "address" -> Str(addr.address)])))

(***************************************************************************)
(* Address Decomposer                                                      *)
(***************************************************************************)
\* \d{5}(?:-\d{4})?
ZipShape == Cat(<<Rep(D, 5, 5), Opt(Cat(<<Lit("-"), Rep(D, 4, 4)>>))>>)

\* [A-Z]{2}
TwoUpper == Rep(Set(Upper), 2, 2)

\* /\b(\d{5}(?:-\d{4})?)\b/
ZipAnywhere == Cat(<<Wb, Grp(1, ZipShape), Wb>>)

\* /\b([A-Z]{2})\s*\d{5}/, /,\s*([A-Z]{2})\s*$/, /\s([A-Z]{2})\s/
StateBeforeZip == Cat(<<Wb, Grp(1, TwoUpper), Star(S), Rep(D, 5, 5)>>)
StateAtEnd == Cat(<<Lit(","), Star(S), Grp(1, TwoUpper), Star(S), Eol>>)
StateInMiddle == Cat(<<S, Grp(1, TwoUpper), S>>)

\* /State:\s*([A-Z]{2})/i
StateLabel == Cat(<<Lit("State:"), Star(S), Grp(1, TwoUpper)>>)

\* /^\s*(\d{5}(?:-\d{4})?)\s*$/
ZipOnly == Cat(<<Bol, Star(S), Grp(1, ZipShape), Star(S), Eol>>)

\* /^(APT|APARTMENT|UNIT|SUITE|STE)\s+/i
AptPrefix ==
  Cat(<<Bol, Grp(1, Alt(<<Lit("APT"), Lit("APARTMENT"), Lit("UNIT"), Lit("SUITE"),
                          Lit("STE")>>)), Plus(S)>>)

\* /^([A-Z]{2})?\s*(\d{5}(?:-\d{4})?)?\s*$/
StateZipOnly ==
  Cat(<<Bol, Opt(Grp(1, TwoUpper)), Star(S), Opt(Grp(2, ZipShape)), Star(S), Eol>>)

\* /^(.+?)\s+([A-Z]{2})\s+(\d{5}(?:-\d{4})?)$/
CityStateZip ==
  Cat(<<Bol, Grp(1, PlusLazy(NotSet({"\n", "\r"}))), Plus(S), Grp(2, TwoUpper),
        Plus(S), Grp(3, ZipShape), Eol>>)

\* /\s*\b\d{5}(?:-\d{4})?\b\s*$/, /\s*\b[A-Z]{2}\b\s*$/, /\s*\b[A-Z]{2}\s*$/
TrailingZip == Cat(<<Star(S), Wb, ZipShape, Wb, Star(S), Eol>>)
TrailingState == Cat(<<Star(S), Wb, TwoUpper, Wb, Star(S), Eol>>)
TrailingStateLoose == Cat(<<Star(S), Wb, TwoUpper, Star(S), Eol>>)

\* /^(.+?)\s+([A-Za-z\s]+?)\s+([A-Z]{2})\s+(\d{5}(?:-\d{4})?)$/
SpaceSeparated ==
  Cat(<<Bol, Grp(1, PlusLazy(NotSet({"\n", "\r"}))), Plus(S),
        Grp(2, PlusLazy(LetterOrSpace)), Plus(S), Grp(3, TwoUpper), Plus(S),
        Grp(4, ZipShape), Eol>>)

\* /,\s*$/
TrailingComma == Cat(<<Lit(","), Star(S), Eol>>)

\* faulty variant: only the last part is left out
JoinAllButLast(parts, n) == Join(SubSeq(parts, 1, Len(parts) - 1), ", ")

\* commaParts.slice(0, -n).join(', ')
JoinAllBut(parts, n) == Join(SubSeq(parts, 1, Len(parts) - n), ", ")

\* part.replace(<zip at end>, '').replace(<state at end>, '').trim()
StripZipState(part) ==
  Trim(ReplaceFirst(ReplaceFirst(part, FALSE, TrailingZip, ""), FALSE, TrailingState, ""))

NoAddressParts == [street |-> "", city |-> "", state |-> "", zipCode |-> ""]

\* fullAddress.trim().replace(/\s+/g, ' ').replace(/,\s*,/g, ',')
NormalizeAddress(fullAddress) ==
  ReplaceAll(CollapseSpace(Trim(fullAddress)), FALSE,
             Cat(<<Lit(","), Star(S), Lit(",")>>), ",")

\* the ZIP code found anywhere in the address, '' if none
ZipOf(normalizedAddress) ==
  Let(Search(normalizedAddress, FALSE, ZipAnywhere), LAMBDA zipMatch :
    IF zipMatch.ok THEN Group(normalizedAddress, zipMatch, 1) ELSE "")

\* stateMatch: before a ZIP code, else at the end, else in the middle
StateMatchOf(normalizedAddress) ==
  Let(Search(normalizedAddress, FALSE, StateBeforeZip), LAMBDA beforeZip :
    IF beforeZip.ok THEN beforeZip
    ELSE Let(Search(normalizedAddress, FALSE, StateAtEnd), LAMBDA atEnd :
           IF atEnd.ok THEN atEnd
           ELSE Search(normalizedAddress, FALSE, StateInMiddle)))

\* faulty variant: the state after "State:" in the OCR text comes first
StateOfTextFirst(normalizedAddress, ocrText) ==
  Let(Search(ocrText, TRUE, StateLabel), LAMBDA ocrStateMatch :
    IF ocrStateMatch.ok THEN ToUpperCase(Group(ocrText, ocrStateMatch, 1))
    ELSE Let(StateMatchOf(normalizedAddress), LAMBDA stateMatch :
           IF stateMatch.ok THEN Group(normalizedAddress, stateMatch, 1) ELSE ""))

\* the state of the address, else the one after "State:" in the OCR text
StateOf(normalizedAddress, ocrText) ==
  Let(StateMatchOf(normalizedAddress), LAMBDA stateMatch :
  Let(IF stateMatch.ok THEN Group(normalizedAddress, stateMatch, 1) ELSE "", LAMBDA state :
    IF state = "" /\ ocrText # ""
    THEN Let(Search(ocrText, TRUE, StateLabel), LAMBDA ocrStateMatch :
           IF ocrStateMatch.ok THEN ToUpperCase(Group(ocrText, ocrStateMatch, 1))
           ELSE state)
    ELSE state))

\* normalizedAddress.split(',').map(part => part.trim())
CommaParts(normalizedAddress) ==
  Let(Split(normalizedAddress, ","), LAMBDA untrimmed :
    [i \in 1..Len(untrimmed) |-> Trim(untrimmed[i])])

\* commaParts.length >= 3
ThreeOrMoreParts(commaParts, state, zipCode) ==
  Let(commaParts[Len(commaParts)], LAMBDA lastPart :
  Let(commaParts[Len(commaParts) - 1], LAMBDA secondToLastPart :
  Let(Search(lastPart, FALSE, ZipOnly), LAMBDA zipOnlyMatch :
    IF zipOnlyMatch.ok /\ Search(secondToLastPart, TRUE, AptPrefix).ok
    THEN [street |-> JoinAllBut(commaParts, 1), city |-> "",
          state |-> state, zipCode |-> Group(lastPart, zipOnlyMatch, 1)]
    ELSE Let(Search(lastPart, FALSE, StateZipOnly), LAMBDA stateZipMatch :
           IF stateZipMatch.ok
           THEN [street |-> JoinAllBut(commaParts, 2), city |-> secondToLastPart,
                 state |-> IF Group(lastPart, stateZipMatch, 1) # ""
                           THEN Group(lastPart, stateZipMatch, 1) ELSE state,
                 zipCode |-> IF Group(lastPart, stateZipMatch, 2) # ""
                             THEN Group(lastPart, stateZipMatch, 2) ELSE zipCode]
           ELSE [street |-> JoinAllBut(commaParts, 1), city |-> StripZipState(lastPart),
                 state |-> state, zipCode |-> zipCode]))))

\* commaParts.length === 2
TwoParts(commaParts, state, zipCode) ==
  Let(commaParts[2], LAMBDA secondPart :
  Let(Search(secondPart, FALSE, CityStateZip), LAMBDA cityStateZipMatch :
    IF cityStateZipMatch.ok
    THEN [street |-> commaParts[1],
          city |-> Group(secondPart, cityStateZipMatch, 1),
          state |-> Group(secondPart, cityStateZipMatch, 2),
          zipCode |-> Group(secondPart, cityStateZipMatch, 3)]
    ELSE Let(Search(secondPart, FALSE, ZipOnly), LAMBDA zipOnlyMatch :
           IF zipOnlyMatch.ok
           THEN [street |-> commaParts[1], city |-> "", state |-> state,
                 zipCode |-> Group(secondPart, zipOnlyMatch, 1)]
           ELSE IF Search(secondPart, TRUE, AptPrefix).ok
           THEN [street |-> commaParts[1] \o ", " \o secondPart, city |-> "",
                 state |-> state, zipCode |-> zipCode]
           ELSE [street |-> commaParts[1], city |-> StripZipState(secondPart),
                 state |-> state, zipCode |-> zipCode])))

\* a single part: the address without a trailing ZIP code and state
OnePart(normalizedAddress, state, zipCode) ==
  [street |-> Trim(ReplaceFirst(
                Trim(ReplaceFirst(normalizedAddress, FALSE, TrailingZip, "")),
                FALSE, TrailingStateLoose, "")),
   city |-> "", state |-> state, zipCode |-> zipCode]

\* the branch on the number of comma separated parts
PartsByCommas(commaParts, normalizedAddress, state, zipCode) ==
  IF Len(commaParts) >= 3 THEN ThreeOrMoreParts(commaParts, state, zipCode)
  ELSE IF Len(commaParts) = 2 THEN TwoParts(commaParts, state, zipCode)
  ELSE OnePart(normalizedAddress, state, zipCode)

\* the space separated format, tried when neither street nor city was found
SpaceSeparatedParts(parsed, normalizedAddress) ==
  IF parsed.street = "" /\ parsed.city = "" /\ Includes(normalizedAddress, " ")
  THEN Let(Search(normalizedAddress, FALSE, SpaceSeparated), LAMBDA spaceMatch :
         IF spaceMatch.ok
         THEN [street |-> Trim(Group(normalizedAddress, spaceMatch, 1)),
               city |-> Trim(Group(normalizedAddress, spaceMatch, 2)),
               state |-> Group(normalizedAddress, spaceMatch, 3),
               zipCode |-> Group(normalizedAddress, spaceMatch, 4)]
         ELSE parsed)
  ELSE parsed

\* trailing commas removed; the street falls back to the whole address
CleanParts(parts, normalizedAddress) ==
  Let(Trim(ReplaceFirst(parts.street, FALSE, TrailingComma, "")), LAMBDA street :
    [street |-> IF street # "" THEN street ELSE normalizedAddress,
     city |-> Trim(ReplaceFirst(parts.city, FALSE, TrailingComma, "")),
     state |-> parts.state, zipCode |-> parts.zipCode])

extractAddressParts(fullAddress, ocrText) ==
  IF fullAddress = "" THEN NoAddressParts
  ELSE Let(NormalizeAddress(fullAddress), LAMBDA normalizedAddress :
         CleanParts(
           SpaceSeparatedParts(
             PartsByCommas(CommaParts(normalizedAddress), normalizedAddress,
                           StateOf(normalizedAddress, ocrText),
                           ZipOf(normalizedAddress)),
             normalizedAddress),
           normalizedAddress))

(***************************************************************************)
(* Field Mapping Tables and Generic Mapper                                 *)
(***************************************************************************)
w2FieldMappings ==
  << <<"Employee.Name", "employeeName">>,
     <<"Employee.SSN", "employeeSSN">>,
     <<"Employee.Address", "employeeAddress">>,
     <<"Employer.Name", "employerName">>,
     <<"Employer.EIN", "employerEIN">>,
     <<"Employer.Address", "employerAddress">>,
     <<"WagesAndTips", "wages">>,
     <<"FederalIncomeTaxWithheld", "federalTaxWithheld">>,
     <<"SocialSecurityWages", "socialSecurityWages">>,
     <<"SocialSecurityTaxWithheld", "socialSecurityTaxWithheld">>,
     <<"MedicareWagesAndTips", "medicareWages">>,
     <<"MedicareTaxWithheld", "medicareTaxWithheld">>,
     <<"SocialSecurityTips", "socialSecurityTips">>,
     <<"AllocatedTips", "allocatedTips">>,
     <<"StateWagesTipsEtc", "stateWages">>,
     <<"StateIncomeTax", "stateTaxWithheld">>,
     <<"LocalWagesTipsEtc", "localWages">>,
     <<"LocalIncomeTax", "localTaxWithheld">> >>

int1099FieldMappings ==
  << <<"Payer.Name", "payerName">>,
     <<"Payer.TIN", "payerTIN">>,
     <<"Payer.Address", "payerAddress">>,
     <<"Recipient.Name", "recipientName">>,
     <<"Recipient.TIN", "recipientTIN">>,
     <<"Recipient.Address", "recipientAddress">>,
     <<"InterestIncome", "interestIncome">>,
     <<"EarlyWithdrawalPenalty", "earlyWithdrawalPenalty">>,
     <<"InterestOnUSTreasuryObligations", "interestOnUSavingsBonds">>,
     <<"FederalIncomeTaxWithheld", "federalTaxWithheld">>,
     <<"InvestmentExpenses", "investmentExpenses">>,
     <<"ForeignTaxPaid", "foreignTaxPaid">>,
     <<"TaxExemptInterest", "taxExemptInterest">> >>

div1099FieldMappings ==
  << <<"Payer.Name", "payerName">>,
     <<"Payer.TIN", "payerTIN">>,
     <<"Payer.Address", "payerAddress">>,
     <<"Recipient.Name", "recipientName">>,
     <<"Recipient.TIN", "recipientTIN">>,
     <<"Recipient.Address", "recipientAddress">>,
     <<"OrdinaryDividends", "ordinaryDividends">>,
     <<"QualifiedDividends", "qualifiedDividends">>,
     <<"TotalCapitalGainDistributions", "totalCapitalGain">>,
     <<"NondividendDistributions", "nondividendDistributions">>,
     <<"FederalIncomeTaxWithheld", "federalTaxWithheld">>,
     <<"Section199ADividends", "section199ADividends">> >>

misc1099FieldMappings ==
  << <<"Payer.Name", "payerName">>,
     <<"Payer.TIN", "payerTIN">>,
     <<"Payer.Address", "payerAddress">>,
     <<"Recipient.Name", "recipientName">>,
     <<"Recipient.TIN", "recipientTIN">>,
     <<"Recipient.Address", "recipientAddress">>,
     <<"Rents", "rents">>,
     <<"Royalties", "royalties">>,
     <<"OtherIncome", "otherIncome">>,
     <<"FederalIncomeTaxWithheld", "federalTaxWithheld">>,
     <<"FishingBoatProceeds", "fishingBoatProceeds">>,
     <<"MedicalAndHealthCarePayments", "medicalHealthPayments">>,
     <<"NonemployeeCompensation", "nonemployeeCompensation">> >>

nec1099FieldMappings ==
  << <<"Payer.Name", "payerName">>,
     <<"Payer.TIN", "payerTIN">>,
     <<"Payer.Address", "payerAddress">>,
     <<"Recipient.Name", "recipientName">>,
     <<"Recipient.TIN", "recipientTIN">>,
     <<"Recipient.Address", "recipientAddress">>,
     <<"NonemployeeCompensation", "nonemployeeCompensation">>,
     <<"FederalIncomeTaxWithheld", "federalTaxWithheld">> >>

\* the value a mapping loop stores for a defined provider value:
\* typeof value === 'number' ? value : this.parseAmount(value)
MappedValue(value) ==
  IF TypeOf(value) = "number" THEN value ELSE parseAmount(value)

\* faulty variant: every entry of a mapping table is taken
IsMappedAlways(fields, azureFieldName) == TRUE

\* is the entry of a mapping loop taken: fields[name]?.value !== undefined
IsMapped(fields, azureFieldName) ==
  FieldValue(fields, azureFieldName).t # "undef"

\* the loop over the entries of a mapping table, from entry i on
RECURSIVE MapFields(_, _, _, _)
MapFields(fields, data, mappings, i) ==
  IF i > Len(mappings) THEN data
  ELSE MapFields(fields,
                 IF IsMapped(fields, mappings[i][1])
                 THEN Put(data, mappings[i][2],
                          MappedValue(FieldValue(fields, mappings[i][1])))
                 ELSE data,
                 mappings, i + 1)

process1099IntFields(fields, baseData) == MapFields(fields, baseData, int1099FieldMappings, 1)

process1099DivFields(fields, baseData) == MapFields(fields, baseData, div1099FieldMappings, 1)

process1099MiscFields(fields, baseData) == MapFields(fields, baseData, misc1099FieldMappings, 1)

process1099NecFields(fields, baseData) == MapFields(fields, baseData, nec1099FieldMappings, 1)

\* faulty variant: the values are normalised as amounts
processGenericFieldsCoerced(fields, baseData) ==
  [k \in DOMAIN baseData \cup {f \in DOMAIN fields : fields[f].value.t # "undef"} |->
     IF k \in DOMAIN fields /\ fields[k].value.t # "undef"
     THEN MappedValue(fields[k].value) ELSE baseData[k]]

\* every field of the provider whose value is defined, under its own name
processGenericFields(fields, baseData) ==
  [k \in DOMAIN baseData \cup {f \in DOMAIN fields : fields[f].value.t # "undef"} |->
     IF k \in DOMAIN fields /\ fields[k].value.t # "undef"
     THEN fields[k].value ELSE baseData[k]]

(***************************************************************************)
(* W-2 mapping with its fallbacks                                          *)
(***************************************************************************)
nameFields == <<"Employee.Name", "EmployeeName", "Employee_Name", "RecipientName">>
ssnFields == <<"Employee.SSN", "EmployeeSSN", "Employee_SSN", "RecipientTIN">>
addressFields == <<"Employee.Address", "EmployeeAddress", "Employee_Address", "RecipientAddress">>

\* if (!data[key]) take the first truthy value among the fields `names`
FieldFallback(fields, data, key, names) ==
  LET hits == {i \in 1..Len(names) : Truthy(FieldValue(fields, names[i]))}
  IN IF ~Truthy(Get(data, key)) /\ hits # {}
     THEN Put(data, key, FieldValue(fields, names[Min(hits)]))
     ELSE data

\* faulty variant: the recovered value is written over a value in place
OcrFillOverwriting(data, key, info, from) ==
  IF Truthy(Get(info, from)) THEN Put(data, key, Get(info, from)) ELSE data

\* if (!data[key] && info[from]) data[key] = info[from]
OcrFill(data, key, info, from) ==
  IF ~Truthy(Get(data, key)) /\ Truthy(Get(info, from))
  THEN Put(data, key, Get(info, from))
  ELSE data

\* OCR fallback for the personal information
PersonalInfoFallback(data, baseData) ==
  IF (~Truthy(Get(data, "employeeName")) \/ ~Truthy(Get(data, "employeeSSN"))
      \/ ~Truthy(Get(data, "employeeAddress")))
     /\ Truthy(Get(baseData, "fullText"))
  THEN Let(extractPersonalInfoFromOCR(Get(baseData, "fullText").s),
           LAMBDA personalInfoFromOCR :
             OcrFill(OcrFill(OcrFill(data, "employeeName", personalInfoFromOCR, "name"),
                             "employeeSSN", personalInfoFromOCR, "ssn"),
                     "employeeAddress", personalInfoFromOCR, "address"))
  ELSE data

\* the parsed address components
AddressComponents(data, baseData) ==
  IF Truthy(Get(data, "employeeAddress")) /\ TypeOf(Get(data, "employeeAddress")) = "string"
  THEN Let(extractAddressParts(Get(data, "employeeAddress").s,
                               IF TypeOf(Get(baseData, "fullText")) = "string"
                               THEN Get(baseData, "fullText").s ELSE ""),
           LAMBDA addressParts :
             Put(Put(Put(Put(data, "employeeAddressStreet", Str(addressParts.street)),
                         "employeeCity", Str(addressParts.city)),
                     "employeeState", Str(addressParts.state)),
                 "employeeZipCode", Str(addressParts.zipCode)))
  ELSE data

\* OCR fallback for the Box 1 wages
WagesFallback(data, baseData) ==
  IF ~Truthy(Get(data, "wages")) /\ Truthy(Get(baseData, "fullText"))
  THEN Let(extractWagesFromOCR(Get(baseData, "fullText").s), LAMBDA wagesFromOCR :
         IF Positive(wagesFromOCR) THEN Put(data, "wages", wagesFromOCR) ELSE data)
  ELSE data

processW2Fields(fields, baseData) ==
  WagesFallback(
    AddressComponents(
      PersonalInfoFallback(
        FieldFallback(fields,
          FieldFallback(fields,
            FieldFallback(fields, MapFields(fields, baseData, w2FieldMappings, 1),
                          "employeeName", nameFields),
            "employeeSSN", ssnFields),
          "employeeAddress", addressFields),
        baseData),
      baseData),
    baseData)

(***************************************************************************)
(* Document Orchestrator                                                   *)
(*                                                                         *)
(* A provider result is [content, documents, keyValuePairs]: content a     *)
(* value, documents a sequence of [hasFields, fields] and keyValuePairs a  *)
(* sequence of [key, value], the values of kvp.key?.content and            *)
(* kvp.value?.content.  An absent list is the empty sequence.              *)
(***************************************************************************)
\* the loop over result.keyValuePairs, from pair i on
RECURSIVE MergeKeyValuePairs(_, _, _)
MergeKeyValuePairs(extractedData, keyValuePairs, i) ==
  IF i > Len(keyValuePairs) THEN extractedData
  ELSE LET key == IF keyValuePairs[i].key.t = "str"
                  THEN Str(Trim(keyValuePairs[i].key.s)) ELSE Undef
           value == IF keyValuePairs[i].value.t = "str"
                    THEN Str(Trim(keyValuePairs[i].value.s)) ELSE Undef
       IN MergeKeyValuePairs(
            IF Truthy(key) /\ Truthy(value) THEN Put(extractedData, key.s, value)
            ELSE extractedData,
            keyValuePairs, i + 1)

\* the mapper the switch on documentType selects
DispatchFields(fields, extractedData, documentType) ==
  CASE documentType = "W2" -> processW2Fields(fields, extractedData)
    [] documentType = "FORM_1099_INT" -> process1099IntFields(fields, extractedData)
    [] documentType = "FORM_1099_DIV" -> process1099DivFields(fields, extractedData)
    [] documentType = "FORM_1099_MISC" -> process1099MiscFields(fields, extractedData)
    [] documentType = "FORM_1099_NEC" -> process1099NecFields(fields, extractedData)
    [] OTHER -> processGenericFields(fields, extractedData)

extractTaxDocumentFields(result, documentType) ==
  Let(Put(EmptyObject, "fullText", OrElse(result.content, Str(""))), LAMBDA extractedData :
    IF Len(result.documents) > 0 /\ result.documents[1].hasFields
    THEN DispatchFields(result.documents[1].fields, extractedData, documentType)
    ELSE MergeKeyValuePairs(extractedData, result.keyValuePairs, 1))

(***************************************************************************)
(* Typed convenience wrappers                                              *)
(***************************************************************************)
w2StringKeys == <<"employerName", "employerEIN", "employeeName", "employeeSSN", "employeeAddress">>

w2AmountKeys ==
  <<"wages", "federalTaxWithheld", "socialSecurityWages", "medicareWages",
    "socialSecurityTaxWithheld", "medicareTaxWithheld", "stateWages", "stateTaxWithheld">>

form1099StringKeys == <<"payerName", "payerTIN", "recipientName", "recipientTIN">>

form1099AmountKeys ==
  <<"interestIncome", "ordinaryDividends", "nonemployeeCompensation", "federalTaxWithheld">>

Range(seq) == {seq[i] : i \in 1..Len(seq)}

\* the properties an object literal lists before ...extractedData:
\* documentType, k: extractedData.k || '' for the string keys and
\* k: this.parseAmount(extractedData.k) || 0 for the amount keys
Defaults(documentType, stringKeys, amountKeys, extractedData) ==
  [k \in {"documentType"} \cup Range(stringKeys) \cup Range(amountKeys) |->
     IF k = "documentType" THEN Str(documentType)
     ELSE IF k \in Range(stringKeys) THEN OrElse(Get(extractedData, k), Str(""))
     ELSE OrElse(parseAmount(Get(extractedData, k)), Whole(0))]

\* faulty variant: the listed properties replace those of extractedData
SpreadUnder(literal, extractedData) ==
  [k \in DOMAIN literal \cup DOMAIN extractedData |->
     IF k \in DOMAIN literal THEN literal[k] ELSE extractedData[k]]

\* { ...literal, ...extractedData }: a spread property replaces a property
\* of the same key listed before it
Spread(literal, extractedData) ==
  [k \in DOMAIN literal \cup DOMAIN extractedData |->
     IF k \in DOMAIN extractedData THEN extractedData[k] ELSE literal[k]]

\* the record processW2Document builds from the inner record
processW2Document(extractedData) ==
  Spread(Defaults("FORM_W2", w2StringKeys, w2AmountKeys, extractedData), extractedData)

\* the record process1099Document builds from the inner record
process1099Document(extractedData, documentType) ==
  Spread(Defaults(documentType, form1099StringKeys, form1099AmountKeys, extractedData),
         extractedData)

getModelIdForDocumentType(documentType) ==
  CASE documentType = "W2" -> "prebuilt-tax.us.w2"
    [] documentType = "FORM_1099_INT" -> "prebuilt-tax.us.1099int"
    [] documentType = "FORM_1099_DIV" -> "prebuilt-tax.us.1099div"
    [] documentType = "FORM_1099_MISC" -> "prebuilt-tax.us.1099misc"
    [] documentType = "FORM_1099_NEC" -> "prebuilt-tax.us.1099nec"
    [] OTHER -> "prebuilt-document"

\* faulty variant: the caught error is thrown again as it is
Rethrown(error) == error

\* the error the catch block of extractDataFromDocument throws for the
\* caught error: error?.message || 'Unknown error' behind a fixed prefix
AnalysisFailed(error) ==
  [name |-> "Error",
   message |-> Str("Azure Document Intelligence processing failed: "
                   \o OrElse(error.message, Str("Unknown error")).s)]

\* the error getAzureDocumentIntelligenceService throws
ConfigurationMissing ==
  [name |-> "Error",
   message |-> Str("Azure Document Intelligence configuration missing. Please set AZURE_DOCUMENT_INTELLIGENCE_ENDPOINT and AZURE_DOCUMENT_INTELLIGENCE_API_KEY environment variables.")]

(***************************************************************************)
(* Bounds and inputs                                                       *)
(***************************************************************************)
\* the largest number of fields in a provider field map
MaxFields == 1

\* the largest number of provider key-value pairs
MaxKvps == 1

\* the largest number of service instances ever constructed
MaxInstances == 2

DocumentTypes ==
  {"W2", "FORM_1099_INT", "FORM_1099_DIV", "FORM_1099_MISC", "FORM_1099_NEC", "OTHER"}

\* OCR texts: one that no recovery pattern matches, one from which a name,
\* an identification number, an address and the Box 1 wages are recovered,
\* and one with a Box 1 amount of zero and a state label
Texts ==
  { "TAX YEAR",
    "Employee: AL BO\nSSN: 987-65-4321\nBox 1 900.00\nf Employee's address and ZIP code 7 OAK AVE, AUSTIN TX 73301",
    "Box 1 0.00\nState: tx" }

Contents == {Undef} \cup {Str(t) : t \in Texts}

\* provider fields: a name with the value the provider returned for it
FieldPool ==
  { <<"Employee.Name", Str("JO LI")>>,
    <<"Employee.SSN", Str("123-45-6789")>>,
    <<"Employee.Address", Str("12 ELM ST, RENO, NV 89501")>>,
    <<"Employee.Address", Str("PO BOX 9, RENO")>>,
    <<"EmployeeName", Str("JO LI")>>,
    <<"Employer.Name", Str("ACME")>>,
    <<"WagesAndTips", Whole(50000)>>,
    <<"WagesAndTips", Whole(0)>>,
    <<"WagesAndTips", Undef>>,
    <<"Payer.Name", Str("BANK")>>,
    <<"InterestIncome", Str("$1,234.56")>>,
    <<"NonemployeeCompensation", Undef>>,
    <<"FederalIncomeTaxWithheld", Num(105, 1)>>,
    <<"Custom", Str("7 UP")>> }

\* the field maps with at most MaxFields fields
FieldMaps ==
  { [n \in {e[1] : e \in es} |-> [value |-> (CHOOSE e \in es : e[1] = n)[2]]] :
      es \in {es \in SUBSET FieldPool :
                /\ Cardinality(es) <= MaxFields
                /\ \A e1, e2 \in es : e1[1] = e2[1] => e1 = e2} }

DocumentLists ==
  {<<>>, <<[hasFields |-> FALSE, fields |-> EmptyObject]>>}
  \cup {<<[hasFields |-> TRUE, fields |-> fm]>> : fm \in FieldMaps}

KvpPool ==
  { [key |-> Str(" Box 1 "), value |-> Str(" 900 ")],
    [key |-> Str("fullText"), value |-> Str("REPLACED")],
    [key |-> Undef, value |-> Str("orphan")] }

RECURSIVE SeqsUpTo(_, _)
SeqsUpTo(pool, n) ==
  IF n = 0 THEN {<<>>}
  ELSE SeqsUpTo(pool, n - 1)
       \cup {Append(q, x) : q \in {q \in SeqsUpTo(pool, n - 1) : Len(q) = n - 1},
                            x \in pool}

KvpLists == SeqsUpTo(KvpPool, MaxKvps)

\* the provider results; isNull marks a result that is null
RawResults ==
  { [content |-> c, documents |-> d, keyValuePairs |-> k, isNull |-> FALSE] :
      c \in Contents, d \in DocumentLists, k \in KvpLists }

NullResult == [content |-> Undef, documents |-> <<>>, keyValuePairs |-> <<>>, isNull |-> TRUE]

\* the errors an external call rejects with, with and without a message
Failures ==
  { [name |-> "Error", message |-> Str("ENOENT")],
    [name |-> "RestError", message |-> Undef] }

\* the TypeError of reading a property of a null result
NullDereference ==
  [name |-> "TypeError", message |-> Str("Cannot read properties of null (reading 'content')")]

\* the error of a constructor of the provider's client that throws
ConstructionFailed == [name |-> "TypeError", message |-> Str("Invalid URL")]

\* values of the two environment variables
EnvValues == {Undef, Str(""), Str("a"), Str("b")}

NoError == [name |-> "", message |-> Undef]

(***************************************************************************)
(* State                                                                   *)
(***************************************************************************)
VARIABLES
  mapPc,      \* an invocation of extractTaxDocumentFields: "idle", "called", "returned"
  mapIn,      \* its arguments [result, documentType]
  mapOut,     \* the record it returned
  call,       \* an extractDataFromDocument call, see IdleCall
  env,        \* process.env: [endpoint, apiKey]
  azureDocumentIntelligenceService,  \* the singleton: [isNull, id, config]
  instances,  \* the number of instances constructed so far
  lastGet,    \* the outcome of the last getAzureDocumentIntelligenceService call
  mapBase,    \* the base record handed to the mapper, as it is after the mapper returned
  sharedService,  \* the fields of the instance the concurrent calls share: [config, client]
  calls,      \* the frames of the concurrent extractDataFromDocument calls, see IdleFrame
  addr,       \* an invocation of extractAddressParts, see NoAddr
  wage        \* the Box 1 recovery of processW2Fields, see NoWage

vars == <<mapPc, mapIn, mapOut, call, env, azureDocumentIntelligenceService, instances, lastGet,
          mapBase, sharedService, calls, addr, wage>>

mapVars == <<mapPc, mapIn, mapOut, mapBase>>
singletonVars == <<env, azureDocumentIntelligenceService, instances, lastGet>>
sharedVars == <<sharedService, calls>>
pureVars == <<addr, wage>>

NoConfig == [endpoint |-> Undef, apiKey |-> Undef]

\* the values of the variables of the parts of the program that are not running
NoService == [config |-> NoConfig, client |-> 0]
NoCalls == <<>>
\* segments: the comma separated segments the address was written from
NoAddr == [pc |-> "idle", segments |-> <<>>, fullAddress |-> "", ocrText |-> "",
           parts |-> NoAddressParts]
\* ocrText: baseData.fullText; w2Data: the record after structured mapping;
\* wagesFromOCR: what extractWagesFromOCR returned; record: w2Data after
\* the recovery
NoWage == [pc |-> "idle", ocrText |-> "", w2Data |-> EmptyObject,
           wagesFromOCR |-> Whole(0), record |-> EmptyObject]

Null == [isNull |-> TRUE, id |-> 0, config |-> NoConfig]

\* new AzureDocumentIntelligenceService(config), the id-th instance
Instance(id, config) == [isNull |-> FALSE, id |-> id, config |-> config]

\* wrapper: "none" for a direct call, "W2" for processW2Document, "1099"
\* for process1099Document; pc: "idle", "load" (awaiting readFile), "begin"
\* (awaiting beginAnalyzeDocument), "poll" (awaiting pollUntilDone), "map",
\* "done"; modelId: the provider model requested;
\* result: the provider result; failedAt: the step that failed; raised:
\* the error it failed with; inner: the record extractDataFromDocument
\* returned; outcome: "returned" with record, or "threw" with error
IdleCall ==
  [pc |-> "idle", wrapper |-> "none", documentType |-> "",
   modelId |-> "", result |-> NullResult, failedAt |-> "", raised |-> NoError,
   inner |-> EmptyObject, outcome |-> "", record |-> EmptyObject, error |-> NoError]

NoGet == [outcome |-> "", instance |-> Null, error |-> NoError,
          hadInstance |-> FALSE, configMissing |-> FALSE]

\* the orchestrator is about to run on any provider result and document
\* type; no call is under way and the module has just been loaded
InitMap ==
  /\ mapPc = "called"
  /\ mapIn \in [result : RawResults, documentType : DocumentTypes]
  /\ mapOut = EmptyObject
  /\ call = IdleCall
  /\ env = NoConfig
  /\ azureDocumentIntelligenceService = Null
  /\ instances = 0
  /\ lastGet = NoGet
  /\ mapBase = EmptyObject
  /\ sharedService = NoService
  /\ calls = NoCalls
  /\ addr = NoAddr
  /\ wage = NoWage

\* an instance of the service exists and no call of it is under way
Init ==
  /\ mapPc = "idle"
  /\ mapIn = [result |-> NullResult, documentType |-> ""]
  /\ mapOut = EmptyObject
  /\ call = IdleCall
  /\ env = NoConfig
  /\ azureDocumentIntelligenceService = Null
  /\ instances = 0
  /\ lastGet = NoGet
  /\ mapBase = EmptyObject
  /\ sharedService = NoService
  /\ calls = NoCalls
  /\ addr = NoAddr
  /\ wage = NoWage

\* the module has just been loaded: let azureDocumentIntelligenceService = null
InitSingleton ==
  /\ mapPc = "idle"
  /\ mapIn = [result |-> NullResult, documentType |-> ""]
  /\ mapOut = EmptyObject
  /\ call = IdleCall
  /\ env \in [endpoint : EnvValues, apiKey : EnvValues]
  /\ azureDocumentIntelligenceService = Null
  /\ instances = 0
  /\ lastGet = NoGet
  /\ mapBase = EmptyObject
  /\ sharedService = NoService
  /\ calls = NoCalls
  /\ addr = NoAddr
  /\ wage = NoWage

(***************************************************************************)
(* The orchestrator invoked on a provider result                           *)
(***************************************************************************)
\* faulty variant: const data = baseData; the mapper writes into the record
\* handed to it, which is the returned record afterwards
BaseWrittenByMapper(baseData, data) == data

\* const data = { ...baseData }: every write of a mapper goes to its copy
\* data (w2Data), none to baseData, so that the record handed to a mapper is
\* after the call what it was before
BaseAfterMapper(baseData, data) == baseData

\* extractTaxDocumentFields runs to its return; no statement of it or of a
\* mapper assigns to result, to a document, to a field or to a pair
Return ==
  /\ mapPc = "called"
  /\ mapPc' = "returned"
  /\ mapOut' = extractTaxDocumentFields(mapIn.result, mapIn.documentType)
  /\ mapBase' =
       IF Len(mapIn.result.documents) > 0 /\ mapIn.result.documents[1].hasFields
       THEN BaseAfterMapper(
              Put(EmptyObject, "fullText", OrElse(mapIn.result.content, Str(""))), mapOut')
       ELSE mapBase
  /\ UNCHANGED <<mapIn, call, singletonVars, sharedVars, pureVars>>

NextMap == Return

SpecMap == InitMap /\ [][NextMap]_vars

(***************************************************************************)
(* extractDataFromDocument, directly or through a typed wrapper            *)
(***************************************************************************)
Wrappers == {"none", "W2", "1099"}

\* the catch block: whatever was thrown inside try is replaced
Catch(c, step, error) ==
  [c EXCEPT !.pc = "done", !.failedAt = step, !.raised = error,
            !.outcome = "threw", !.error = AnalysisFailed(error)]

\* processW2Document(source), process1099Document(source, documentType) or
\* extractDataFromDocument(source, documentType) is called and runs to its
\* first await: readFile for a path, beginAnalyzeDocument for a buffer
Start(wrapper, documentType, source) ==
  /\ call.pc = "idle"
  /\ wrapper = "W2" => documentType = "W2"
  /\ call' = IF source = "path"
             THEN [call EXCEPT !.pc = "load", !.wrapper = wrapper,
                               !.documentType = documentType]
             ELSE [call EXCEPT !.pc = "begin", !.wrapper = wrapper,
                               !.documentType = documentType,
                               !.modelId = getModelIdForDocumentType(documentType)]
  /\ UNCHANGED <<mapVars, singletonVars, sharedVars, pureVars>>

\* readFile resolves; the model id is determined
LoadOk ==
  /\ call.pc = "load"
  /\ call' = [call EXCEPT !.pc = "begin",
                          !.modelId = getModelIdForDocumentType(call.documentType)]
  /\ UNCHANGED <<mapVars, singletonVars, sharedVars, pureVars>>

\* readFile rejects
LoadFail(error) ==
  /\ call.pc = "load"
  /\ call' = Catch(call, "load", error)
  /\ UNCHANGED <<mapVars, singletonVars, sharedVars, pureVars>>

\* beginAnalyzeDocument resolves with a poller
BeginOk ==
  /\ call.pc = "begin"
  /\ call' = [call EXCEPT !.pc = "poll"]
  /\ UNCHANGED <<mapVars, singletonVars, sharedVars, pureVars>>

\* beginAnalyzeDocument rejects
BeginFail(error) ==
  /\ call.pc = "begin"
  /\ call' = Catch(call, "begin", error)
  /\ UNCHANGED <<mapVars, singletonVars, sharedVars, pureVars>>

\* pollUntilDone resolves with the provider's result
PollOk(result) ==
  /\ call.pc = "poll"
  /\ call' = [call EXCEPT !.pc = "map", !.result = result]
  /\ UNCHANGED <<mapVars, singletonVars, sharedVars, pureVars>>

\* pollUntilDone rejects
PollFail(error) ==
  /\ call.pc = "poll"
  /\ call' = Catch(call, "poll", error)
  /\ UNCHANGED <<mapVars, singletonVars, sharedVars, pureVars>>

\* the record the caller receives for the inner record
Wrapped(wrapper, inner, documentType) ==
  CASE wrapper = "W2" -> processW2Document(inner)
    [] wrapper = "1099" -> process1099Document(inner, documentType)
    [] OTHER -> inner

\* extractTaxDocumentFields runs on the result; reading a property of a
\* null result throws inside try
MapResult ==
  /\ call.pc = "map"
  /\ call' =
       IF call.result.isNull THEN Catch(call, "map", NullDereference)
       ELSE Let(extractTaxDocumentFields(call.result, call.documentType), LAMBDA inner :
              [call EXCEPT !.pc = "done", !.inner = inner, !.outcome = "returned",
                           !.record = Wrapped(call.wrapper, inner, call.documentType)])
  /\ UNCHANGED <<mapVars, singletonVars, sharedVars, pureVars>>

\* the results a call polls: those of RawResults in which key-value pairs
\* come without a document, and the null result
CallResults ==
  {r \in RawResults : Len(r.keyValuePairs) = 0 \/ Len(r.documents) = 0} \cup {NullResult}

Next ==
  \/ \E wrapper \in Wrappers, documentType \in DocumentTypes, source \in {"path", "buffer"} :
       Start(wrapper, documentType, source)
  \/ LoadOk
  \/ \E error \in Failures : LoadFail(error)
  \/ BeginOk
  \/ \E error \in Failures : BeginFail(error)
  \/ \E result \in CallResults : PollOk(result)
  \/ \E error \in Failures : PollFail(error)
  \/ MapResult

Spec == Init /\ [][Next]_vars

(***************************************************************************)
(* The lazily constructed service instance                                 *)
(***************************************************************************)
\* the environment variables change between calls
SetEnv(endpoint, apiKey) ==
  /\ env' = [endpoint |-> endpoint, apiKey |-> apiKey]
  /\ env' # env
  /\ UNCHANGED <<mapVars, call, azureDocumentIntelligenceService, instances, lastGet,
               sharedVars, pureVars>>

\* faulty variant: every call constructs
MustConstructAlways(service) == TRUE

\* if (!azureDocumentIntelligenceService)
MustConstruct(service) == service.isNull

\* if (!config.endpoint || !config.apiKey)
ConfigMissing(config) == ~Truthy(config.endpoint) \/ ~Truthy(config.apiKey)

\* one call; `constructs` tells whether the constructor, which builds the
\* provider's client, returns or throws
getAzureDocumentIntelligenceService(constructs) ==
  /\ instances < MaxInstances
  /\ IF MustConstruct(azureDocumentIntelligenceService)
     THEN IF ConfigMissing(env)
          THEN /\ lastGet' = [outcome |-> "threw", instance |-> Null,
                              error |-> ConfigurationMissing,
                              hadInstance |-> ~azureDocumentIntelligenceService.isNull,
                              configMissing |-> TRUE]
               /\ UNCHANGED <<azureDocumentIntelligenceService, instances>>
          ELSE IF ~constructs
          THEN /\ lastGet' = [outcome |-> "threw", instance |-> Null,
                              error |-> ConstructionFailed,
                              hadInstance |-> ~azureDocumentIntelligenceService.isNull,
                              configMissing |-> FALSE]
               /\ UNCHANGED <<azureDocumentIntelligenceService, instances>>
          ELSE /\ instances' = instances + 1
               /\ azureDocumentIntelligenceService' = Instance(instances + 1, env)
               /\ lastGet' = [outcome |-> "returned",
                              instance |-> Instance(instances + 1, env),
                              error |-> NoError,
                              hadInstance |-> ~azureDocumentIntelligenceService.isNull,
                              configMissing |-> FALSE]
     ELSE /\ lastGet' = [outcome |-> "returned",
                         instance |-> azureDocumentIntelligenceService,
                         error |-> NoError, hadInstance |-> TRUE,
                         configMissing |-> ConfigMissing(env)]
          /\ UNCHANGED <<azureDocumentIntelligenceService, instances>>
  /\ UNCHANGED <<mapVars, call, env, sharedVars, pureVars>>

NextSingleton ==
  \/ \E endpoint \in EnvValues, apiKey \in EnvValues : SetEnv(endpoint, apiKey)
  \/ \E constructs \in BOOLEAN : getAzureDocumentIntelligenceService(constructs)

SpecSingleton == InitSingleton /\ [][NextSingleton]_vars

(***************************************************************************)
(* Properties of the orchestrator (SpecMap)                                *)
(***************************************************************************)
Returned == mapPc = "returned"

\* the field map of the primary document, if the result has one
HasFieldMap == Len(mapIn.result.documents) > 0 /\ mapIn.result.documents[1].hasFields
FieldMapIn == mapIn.result.documents[1].fields

\* the record before the provider key-value pairs are looked at
MappedRecord ==
  Let(Put(EmptyObject, "fullText", OrElse(mapIn.result.content, Str(""))), LAMBDA extractedData :
    IF HasFieldMap THEN DispatchFields(FieldMapIn, extractedData, mapIn.documentType)
    ELSE extractedData)

\* the pairs with a non-empty trimmed key and value, as <<key, value>>
ValidPairs ==
  {<<Trim(kv.key.s), Str(Trim(kv.value.s))>> :
     kv \in {mapIn.result.keyValuePairs[i] : i \in 1..Len(mapIn.result.keyValuePairs)}
            \cap {kv \in KvpPool : /\ kv.key.t = "str" /\ kv.value.t = "str"
                                   /\ Trim(kv.key.s) # "" /\ Trim(kv.value.s) # ""}}

\* C1: every provider key-value pair with a non-empty trimmed key and value
\* is in the returned record, also when a primary document with a field map
\* exists, and a pair whose key the mapped record already holds leaves the
\* value of that key as it was
C1_PairsMerged ==
  Returned =>
    Let(MappedRecord, LAMBDA mapped :
      \A kv \in ValidPairs :
        /\ Has(mapOut, kv[1])
        /\ Has(mapped, kv[1]) => Get(mapOut, kv[1]) = Get(mapped, kv[1]))

\* the mapping table of a document type
TableOf(documentType) ==
  CASE documentType = "W2" -> w2FieldMappings
    [] documentType = "FORM_1099_INT" -> int1099FieldMappings
    [] documentType = "FORM_1099_DIV" -> div1099FieldMappings
    [] documentType = "FORM_1099_MISC" -> misc1099FieldMappings
    [] documentType = "FORM_1099_NEC" -> nec1099FieldMappings
    [] OTHER -> <<>>

NonNumericFields ==
  {"Employer.Name", "Employer.EIN", "Employee.SSN", "Payer.Name", "Payer.TIN",
   "Recipient.Name", "Recipient.Address"}

\* C2: a string the provider returns for a non-numeric field of a mapping
\* table is the value of its canonical key, unchanged
C2_StringsKept ==
  Returned /\ HasFieldMap =>
    LET table == TableOf(mapIn.documentType)
    IN \A i \in 1..Len(table) :
         table[i][1] \in NonNumericFields /\ FieldValue(FieldMapIn, table[i][1]).t = "str"
           => Get(mapOut, table[i][2]) = FieldValue(FieldMapIn, table[i][1])

\* C3: for W2 a numeric WagesAndTips value, zero included, is the wages of
\* the returned record whatever the full text holds
C3_StructuredWagesKept ==
  Returned /\ HasFieldMap /\ mapIn.documentType = "W2"
           /\ TypeOf(FieldValue(FieldMapIn, "WagesAndTips")) = "number"
    => Get(mapOut, "wages") = FieldValue(FieldMapIn, "WagesAndTips")

AddressKeys == {"employeeAddressStreet", "employeeCity", "employeeState", "employeeZipCode"}

\* C4: for W2 a record with a populated employeeAddress, and every record
\* mapped from a non-empty Employee.Address string, holds the four derived
\* address keys
C4_AddressDecomposed ==
  Returned /\ HasFieldMap /\ mapIn.documentType = "W2"
           /\ \/ Truthy(Get(mapOut, "employeeAddress"))
              \/ /\ FieldValue(FieldMapIn, "Employee.Address").t = "str"
                 /\ FieldValue(FieldMapIn, "Employee.Address").s # ""
    => \A k \in AddressKeys : Has(mapOut, k)

PersonalFields ==
  {<<"Employee.Name", "employeeName">>, <<"Employee.SSN", "employeeSSN">>,
   <<"Employee.Address", "employeeAddress">>}

\* the W-2 record of the same field map when there is no text to recover from
StructuredOnly == processW2Fields(FieldMapIn, Put(EmptyObject, "fullText", Str("")))

\* C5: for W2 the canonical key of a non-empty Employee.Name, Employee.SSN
\* or Employee.Address string holds the provider's string or its amount
\* normalisation, never a value recovered from the text, and a key whose
\* value differs from the one structured mapping alone gives was missing
\* after structured mapping
C5_OcrIsFallbackOnly ==
  Returned /\ HasFieldMap /\ mapIn.documentType = "W2" =>
    \A pf \in PersonalFields :
      LET supplied == FieldValue(FieldMapIn, pf[1])
          structured == Get(StructuredOnly, pf[2])
      IN /\ supplied.t = "str" /\ supplied.s # ""
            => Get(mapOut, pf[2]) \in {supplied, parseAmount(supplied)}
         /\ Get(mapOut, pf[2]) # structured => ~Truthy(structured)

\* a supplied name is kept although the text holds another employee name
C5_Witness ==
  /\ Returned /\ HasFieldMap /\ mapIn.documentType = "W2"
  /\ FieldValue(FieldMapIn, "Employee.Name") = Str("JO LI")
  /\ mapIn.result.content.t = "str"
  /\ Let(extractPersonalInfoFromOCR(mapIn.result.content.s), LAMBDA personalInfoFromOCR :
         /\ Has(personalInfoFromOCR, "name")
         /\ Get(personalInfoFromOCR, "name") # Str("JO LI"))
  /\ Get(mapOut, "employeeName") = Str("JO LI")
  /\ Has(mapOut, "employeeSSN")

Form1099Types == {"FORM_1099_INT", "FORM_1099_DIV", "FORM_1099_MISC", "FORM_1099_NEC"}

\* does no recovery pattern match the text
NothingToRecover(content) ==
  \/ ~Truthy(content)
  \/ /\ extractPersonalInfoFromOCR(content.s) = EmptyObject
     /\ extractWagesFromOCR(content.s) = Whole(0)

\* C6: at the mapping stage a canonical key of a 1099 table is in the record
\* only if a provider field mapped to it has a defined value, and for W2 an
\* empty field map with a text no recovery pattern matches gives no table key
C6_AbsentFieldsOmitted ==
  Returned /\ HasFieldMap =>
    LET table == TableOf(mapIn.documentType)
    IN /\ mapIn.documentType \in Form1099Types =>
            \A i \in 1..Len(table) :
              Has(mapOut, table[i][2]) =>
                \E j \in 1..Len(table) :
                  /\ table[j][2] = table[i][2]
                  /\ FieldValue(FieldMapIn, table[j][1]) # Undef
       /\ /\ mapIn.documentType = "W2"
          /\ DOMAIN FieldMapIn = {}
          /\ NothingToRecover(mapIn.result.content)
          => \A i \in 1..Len(table) : ~Has(mapOut, table[i][2])

\* a 1099-NEC field without a value leaves its key out of the record
C6_Witness ==
  /\ Returned /\ HasFieldMap /\ mapIn.documentType = "FORM_1099_NEC"
  /\ "NonemployeeCompensation" \in DOMAIN FieldMapIn
  /\ FieldValue(FieldMapIn, "NonemployeeCompensation") = Undef
  /\ ~Has(mapOut, "nonemployeeCompensation")
  /\ DOMAIN mapOut = {"fullText"}

(***************************************************************************)
(* Properties of a call (Spec)                                             *)
(***************************************************************************)
Done == call.pc = "done"

FixedStringKeys == IF call.wrapper = "W2" THEN Range(w2StringKeys) ELSE Range(form1099StringKeys)
FixedAmountKeys == IF call.wrapper = "W2" THEN Range(w2AmountKeys) ELSE Range(form1099AmountKeys)

\* C7: the record of a typed wrapper holds documentType and the whole fixed
\* key set, a fixed string key missing from the inner record being the
\* empty string and a fixed amount key missing from it the number 0, and
\* holds every key of the inner record with the inner record's value
C7_FixedKeySet ==
  Done /\ call.outcome = "returned" /\ call.wrapper \in {"W2", "1099"} =>
    /\ {"documentType"} \cup FixedStringKeys \cup FixedAmountKeys \subseteq DOMAIN call.record
    /\ \A k \in FixedStringKeys : ~Has(call.inner, k) => call.record[k] = Str("")
    /\ \A k \in FixedAmountKeys : ~Has(call.inner, k) => call.record[k] = Whole(0)
    /\ \A k \in DOMAIN call.inner : Has(call.record, k) /\ call.record[k] = call.inner[k]

\* processW2Document returns structured wages and a normalised employer
\* name from the inner record and defaults for the keys it lacks
C7_Witness ==
  /\ Done /\ call.outcome = "returned" /\ call.wrapper = "W2"
  /\ Has(call.inner, "employerName")
  /\ ~Has(call.inner, "wages") /\ ~Has(call.inner, "employeeName")
  /\ call.record["employerName"] = call.inner["employerName"]
  /\ call.record["wages"] = Whole(0)
  /\ call.record["employeeName"] = Str("")
  /\ call.record["documentType"] = Str("FORM_W2")

AnalysisFailedPrefix == "Azure Document Intelligence processing failed: "

\* C8: a finished call has returned a record and raised nothing, or has
\* raised the analysis-failed error, whose message is the fixed prefix
\* followed by the message of the failure of the step that failed (or
\* "Unknown error"), and has returned no record; a failure of loading, of
\* starting the analysis, of polling or of mapping ends in the second way
C8_SingleErrorKind ==
  Done =>
    \/ /\ call.outcome = "returned"
       /\ call.failedAt = "" /\ call.error = NoError
       /\ Has(call.record, "fullText")
    \/ /\ call.outcome = "threw"
       /\ call.failedAt \in {"load", "begin", "poll", "map"}
       /\ call.record = EmptyObject /\ call.inner = EmptyObject
       /\ call.error.name = "Error"
       /\ call.error.message.t = "str"
       /\ call.error.message.s =
            AnalysisFailedPrefix
            \o (IF call.raised.message.t = "str" /\ call.raised.message.s # ""
                THEN call.raised.message.s ELSE "Unknown error")

\* a null result makes the mapping throw, which surfaces as analysis failed
C8_Witness ==
  /\ Done /\ call.outcome = "threw" /\ call.failedAt = "map"
  /\ call.result = NullResult
  /\ call.raised = NullDereference
  /\ call.error.message.s = AnalysisFailedPrefix \o NullDereference.message.s

(***************************************************************************)
(* Properties of the service instance (SpecSingleton)                      *)
(***************************************************************************)
SingletonInv ==
  /\ instances <= 1
  /\ ~azureDocumentIntelligenceService.isNull => azureDocumentIntelligenceService.id = 1
  /\ lastGet.outcome = "returned" =>
       /\ ~azureDocumentIntelligenceService.isNull
       /\ lastGet.instance = azureDocumentIntelligenceService
       /\ lastGet.instance.id = 1
  /\ lastGet.outcome = "threw" =>
       /\ ~lastGet.hadInstance
       /\ lastGet.error = IF lastGet.configMissing THEN ConfigurationMissing
                          ELSE ConstructionFailed
  /\ lastGet.outcome # "" /\ ~lastGet.hadInstance /\ lastGet.configMissing =>
       /\ lastGet.outcome = "threw"
       /\ azureDocumentIntelligenceService.isNull
       /\ instances = 0

NeverReplaced ==
  /\ ~azureDocumentIntelligenceService.isNull =>
       azureDocumentIntelligenceService' = azureDocumentIntelligenceService
  /\ instances' # instances =>
       /\ azureDocumentIntelligenceService.isNull
       /\ instances' = 1
       /\ ~ConfigMissing(env)

\* C10: at most one instance is ever constructed, every call that returns
\* yields that first instance, an instance in place is never replaced or
\* reset, and a call made without an instance while endpoint or key is
\* missing raises the configuration error and constructs and stores nothing
C10_ConstructedOnce == []SingletonInv /\ [][NeverReplaced]_vars

\* a call made after the configuration was removed returns the instance
\* constructed by the first successful call
C10_Witness ==
  /\ lastGet.outcome = "returned" /\ lastGet.hadInstance /\ lastGet.configMissing
  /\ lastGet.instance = azureDocumentIntelligenceService
  /\ lastGet.instance.config # env
  /\ instances = 1

(***************************************************************************)
(* Concurrent extractDataFromDocument calls on one shared instance         *)
(*                                                                         *)
(* A call is suspended at its awaits: readFile, beginAnalyzeDocument and   *)
(* pollUntilDone.  What follows an await runs to the next await, or to the *)
(* return or the throw, without interruption.  documentPathOrBuffer,       *)
(* documentType, documentBuffer, modelId, poller and result are parameters *)
(* and locals of the call: its frame.  The file system and the provider    *)
(* answer a call according to the document it passed to them.              *)
(***************************************************************************)
\* the largest number of calls in flight on the shared instance
MaxCalls == 2

CallIds == 1..MaxCalls

\* this.config and this.client as the constructor leaves them
ConstructedService ==
  [config |-> [endpoint |-> Str("a"), apiKey |-> Str("b")], client |-> 1]

\* a document with provider fields and a text
FieldsResult ==
  [content |-> Str("1 9"),
   documents |-> <<[hasFields |-> TRUE,
                    fields |-> [n \in {"Employer.Name"} |-> [value |-> Str("ACME")]]]>>,
   keyValuePairs |-> <<>>, isNull |-> FALSE]

\* a document with a key-value pair only
PairsResult ==
  [content |-> Undef, documents |-> <<>>,
   keyValuePairs |-> <<[key |-> Str(" Box 1 "), value |-> Str(" 900 ")]>>,
   isNull |-> FALSE]

\* the arguments of the calls: a document type and a document, which is
\* given as a path or not and for which readFile, beginAnalyzeDocument and
\* pollUntilDone answer as told (NoError: resolves)
SharedInputs ==
  { [documentType |-> "W2",
     document |-> [path |-> FALSE, load |-> NoError, begin |-> NoError, poll |-> NoError,
                   result |-> FieldsResult]],
    [documentType |-> "OTHER",
     document |-> [path |-> FALSE, load |-> NoError, begin |-> NoError, poll |-> NoError,
                   result |-> FieldsResult]],
    [documentType |-> "OTHER",
     document |-> [path |-> TRUE, load |-> NoError, begin |-> NoError, poll |-> NoError,
                   result |-> PairsResult]],
    [documentType |-> "W2",
     document |-> [path |-> TRUE, load |-> [name |-> "Error", message |-> Str("ENOENT")],
                   begin |-> NoError, poll |-> NoError, result |-> NullResult]],
    [documentType |-> "OTHER",
     document |-> [path |-> FALSE, load |-> NoError,
                   begin |-> [name |-> "RestError", message |-> Str("401")],
                   poll |-> NoError, result |-> NullResult]],
    [documentType |-> "W2",
     document |-> [path |-> FALSE, load |-> NoError, begin |-> NoError,
                   poll |-> [name |-> "RestError", message |-> Undef],
                   result |-> NullResult]] }

NoDocument ==
  [path |-> FALSE, load |-> NoError, begin |-> NoError, poll |-> NoError,
   result |-> NullResult]

\* pc: "idle", "load", "begin", "poll", "done"; overlapped: was another call
\* in flight when this one started
IdleFrame ==
  [pc |-> "idle", documentType |-> "", document |-> NoDocument, modelId |-> "",
   overlapped |-> FALSE, outcome |-> "", record |-> EmptyObject, error |-> NoError]

\* faulty variant: the calls keep their data in one place, the first frame
FirstFrame(frames, id) == frames[1]

\* the parameters and locals a call reads are its own
Frame(frames, id) == frames[id]

\* the catch block of a call
Thrown(frame, error) ==
  [frame EXCEPT !.pc = "done", !.outcome = "threw", !.error = AnalysisFailed(error)]

\* return this.extractTaxDocumentFields(result, documentType), or the throw
\* of it on a null result
Mapped(frame, result, documentType) ==
  IF result.isNull THEN Thrown(frame, NullDereference)
  ELSE [frame EXCEPT !.pc = "done", !.outcome = "returned",
                     !.record = extractTaxDocumentFields(result, documentType)]

InFlight(frames) == {id \in DOMAIN frames : frames[id].pc \in {"load", "begin", "poll"}}

\* a call starts and runs to its first await
StartCall(id, documentType, document) ==
  /\ calls[id].pc = "idle"
  /\ calls' = [calls EXCEPT ![id] =
       [@ EXCEPT !.pc = IF document.path THEN "load" ELSE "begin",
                 !.documentType = documentType,
                 !.document = document,
                 !.modelId = IF document.path THEN ""
                             ELSE getModelIdForDocumentType(documentType),
                 !.overlapped = InFlight(calls) # {}]]
  /\ UNCHANGED <<mapVars, call, singletonVars, sharedService, pureVars>>

\* readFile settles for the call
Loaded(id) ==
  /\ calls[id].pc = "load"
  /\ calls' = [calls EXCEPT ![id] =
       IF Frame(calls, id).document.load # NoError
       THEN Thrown(@, Frame(calls, id).document.load)
       ELSE [@ EXCEPT !.pc = "begin",
                      !.modelId = getModelIdForDocumentType(Frame(calls, id).documentType)]]
  /\ UNCHANGED <<mapVars, call, singletonVars, sharedService, pureVars>>

\* this.client.beginAnalyzeDocument(modelId, documentBuffer) settles
Begun(id) ==
  /\ calls[id].pc = "begin"
  /\ calls' = [calls EXCEPT ![id] =
       IF Frame(calls, id).document.begin # NoError
       THEN Thrown(@, Frame(calls, id).document.begin)
       ELSE [@ EXCEPT !.pc = "poll"]]
  /\ UNCHANGED <<mapVars, call, singletonVars, sharedService, pureVars>>

\* poller.pollUntilDone() settles; the result is mapped and returned
Polled(id) ==
  /\ calls[id].pc = "poll"
  /\ calls' = [calls EXCEPT ![id] =
       IF Frame(calls, id).document.poll # NoError
       THEN Thrown(@, Frame(calls, id).document.poll)
       ELSE Mapped(@, Frame(calls, id).document.result, Frame(calls, id).documentType)]
  /\ UNCHANGED <<mapVars, call, singletonVars, sharedService, pureVars>>

InitShared ==
  /\ mapPc = "idle"
  /\ mapIn = [result |-> NullResult, documentType |-> ""]
  /\ mapOut = EmptyObject
  /\ call = IdleCall
  /\ env = NoConfig
  /\ azureDocumentIntelligenceService = Null
  /\ instances = 0
  /\ lastGet = NoGet
  /\ mapBase = EmptyObject
  /\ sharedService = ConstructedService
  /\ calls = [id \in CallIds |-> IdleFrame]
  /\ addr = NoAddr
  /\ wage = NoWage

NextShared ==
  \/ \E id \in CallIds, input \in SharedInputs :
       StartCall(id, input.documentType, input.document)
  \/ \E id \in CallIds : Loaded(id)
  \/ \E id \in CallIds : Begun(id)
  \/ \E id \in CallIds : Polled(id)

SpecShared == InitShared /\ [][NextShared]_vars

\* what a call on the document returns or throws when no other call runs
RunAlone(documentType, document) ==
  IF document.path /\ document.load # NoError
    THEN [outcome |-> "threw", record |-> EmptyObject, error |-> AnalysisFailed(document.load)]
  ELSE IF document.begin # NoError
    THEN [outcome |-> "threw", record |-> EmptyObject, error |-> AnalysisFailed(document.begin)]
  ELSE IF document.poll # NoError
    THEN [outcome |-> "threw", record |-> EmptyObject, error |-> AnalysisFailed(document.poll)]
  ELSE IF document.result.isNull
    THEN [outcome |-> "threw", record |-> EmptyObject,
          error |-> AnalysisFailed(NullDereference)]
  ELSE [outcome |-> "returned",
        record |-> extractTaxDocumentFields(document.result, documentType),
        error |-> NoError]

\* C11: under every interleaving of the calls at their awaits a finished
\* call has returned the record, or raised the error, that a call alone on
\* its document and document type gives, a call that has not started holds
\* nothing, and the configuration and the client handle of the shared
\* instance are as the constructor left them
C11_CallsIsolated ==
  /\ sharedService = ConstructedService
  /\ \A id \in CallIds :
       /\ calls[id].pc = "idle" => calls[id] = IdleFrame
       /\ calls[id].pc = "done" =>
            Let(RunAlone(calls[id].documentType, calls[id].document), LAMBDA alone :
              /\ calls[id].outcome = alone.outcome
              /\ calls[id].record = alone.record
              /\ calls[id].error = alone.error)

\* the second call started while the first was in flight and has returned
\* the W-2 record of its own document; the first, of another document and
\* type, is still polling
C11_Witness ==
  /\ calls[1].pc = "poll" /\ calls[1].documentType = "OTHER"
  /\ calls[1].document.result = PairsResult
  /\ calls[2].pc = "done" /\ calls[2].overlapped /\ calls[2].documentType = "W2"
  /\ calls[2].document.result = FieldsResult
  /\ calls[2].outcome = "returned"
  /\ calls[2].record = extractTaxDocumentFields(FieldsResult, "W2")
  /\ calls[2].record # extractTaxDocumentFields(FieldsResult, "OTHER")

(***************************************************************************)
(* Properties of the Generic Mapper (SpecMap)                              *)
(***************************************************************************)
KnownTypes == {"W2"} \cup Form1099Types

\* C12: for a document type that is none of the five known ones the record
\* holds, for every provider field with a defined value, the provider's
\* value under the provider's field name, a string as the same string, and
\* holds no key for a field whose value is undefined
C12_GenericVerbatim ==
  Returned /\ HasFieldMap /\ mapIn.documentType \notin KnownTypes =>
    \A f \in DOMAIN FieldMapIn :
      IF FieldMapIn[f].value # Undef
      THEN Has(mapOut, f) /\ Get(mapOut, f) = FieldMapIn[f].value
      ELSE ~Has(mapOut, f)

\* an amount-like string of an unknown document type is copied as it is
C12_Witness ==
  /\ Returned /\ HasFieldMap /\ mapIn.documentType = "OTHER"
  /\ "InterestIncome" \in DOMAIN FieldMapIn
  /\ FieldMapIn["InterestIncome"].value = Str("$1,234.56")
  /\ Get(mapOut, "InterestIncome") = Str("$1,234.56")
  /\ Get(mapOut, "InterestIncome") # parseAmount(Str("$1,234.56"))
  /\ DOMAIN mapOut = {"fullText", "InterestIncome"}

(***************************************************************************)
(* The Address Decomposer invoked on an address and an auxiliary text      *)
(***************************************************************************)
\* the largest number of comma separated segments of an address
MaxSegments == 3

\* segments: a street, a city, a state with a ZIP code, a suite whose
\* number has five digits, an empty and a blank one
AddressSegments == {"9 OAK", "RENO", "NV 89501", "STE 12345", "", " "}

\* auxiliary texts, without and with a state label
AddressTexts == {"", "State: tx"}

\* extractAddressParts is about to run on an address written from at most
\* MaxSegments segments, the empty address included
InitAddress ==
  /\ mapPc = "idle"
  /\ mapIn = [result |-> NullResult, documentType |-> ""]
  /\ mapOut = EmptyObject
  /\ call = IdleCall
  /\ env = NoConfig
  /\ azureDocumentIntelligenceService = Null
  /\ instances = 0
  /\ lastGet = NoGet
  /\ mapBase = EmptyObject
  /\ sharedService = NoService
  /\ calls = NoCalls
  /\ addr \in {[pc |-> "called", segments |-> sg, fullAddress |-> Join(sg, ", "),
                ocrText |-> o, parts |-> NoAddressParts] :
                 sg \in SeqsUpTo(AddressSegments, MaxSegments), o \in AddressTexts}
  /\ wage = NoWage

\* extractAddressParts runs to its return
ReturnAddress ==
  /\ addr.pc = "called"
  /\ addr' = [addr EXCEPT !.pc = "returned",
                          !.parts = extractAddressParts(addr.fullAddress, addr.ocrText)]
  /\ UNCHANGED <<mapVars, call, singletonVars, sharedVars, wage>>

NextAddress == ReturnAddress

SpecAddress == InitAddress /\ [][NextAddress]_vars

AddressReturned == addr.pc = "returned"

\* C13: the street returned for an address that is not the empty string is
\* not empty, a whitespace-only address included
C13_StreetNeverEmpty ==
  AddressReturned /\ addr.fullAddress # "" => addr.parts.street # ""

\* /^[A-Z]{2}\s+\d{5}(?:-\d{4})?$/: a state code followed by a ZIP code
StateThenZip == Cat(<<Bol, Grp(1, TwoUpper), Plus(S), Grp(2, ZipShape), Eol>>)

\* the segments trimmed, as the claim about them reads them
TrimmedSegments == [i \in 1..Len(addr.segments) |-> Trim(addr.segments[i])]

\* are the parts those of the segments: the last one the state and the ZIP
\* code, the one before it the city, the earlier ones the street
PartsOfSegments ==
  Let(TrimmedSegments, LAMBDA segs :
  Let(Search(segs[Len(segs)], FALSE, StateThenZip), LAMBDA last :
    /\ addr.parts.street = Join(SubSeq(segs, 1, Len(segs) - 2), ", ")
    /\ addr.parts.city = segs[Len(segs) - 1]
    /\ addr.parts.state = Group(segs[Len(segs)], last, 1)
    /\ addr.parts.zipCode = Group(segs[Len(segs)], last, 2)))

ThreeSegmentsStateZip ==
  /\ AddressReturned
  /\ Len(addr.segments) >= 3
  /\ Search(Trim(addr.segments[Len(addr.segments)]), FALSE, StateThenZip).ok

\* the statement of C14 as it stands, for segments of any content
C14_AnySegments == ThreeSegmentsStateZip => PartsOfSegments

\* C14: for an address of three or more comma separated segments, the last
\* a two-letter state code followed by a ZIP code and none of the earlier
\* ones empty or blank, the city is the segment before the last, the street
\* the earlier segments joined by ', ', and the state and the ZIP code are
\* those of the last segment, also when an earlier segment holds a number
\* of five digits
C14_ThreePartAddress ==
  ThreeSegmentsStateZip
  /\ (\A i \in 1..(Len(addr.segments) - 1) : Trim(addr.segments[i]) # "")
  => PartsOfSegments

\* an address whose first segment holds a five digit number
C14_Witness ==
  /\ AddressReturned
  /\ addr.segments = <<"STE 12345", "RENO", "NV 89501">>
  /\ addr.parts = [street |-> "STE 12345", city |-> "RENO", state |-> "NV",
                   zipCode |-> "89501"]

\* C15: a run on the same address with any other auxiliary text returns
\* the same street, city and ZIP code, and the same state whenever one of
\* the three state patterns matches the address
C15_TextOnlyForState ==
  AddressReturned =>
    \A other \in AddressTexts :
      Let(extractAddressParts(addr.fullAddress, other), LAMBDA parts :
        /\ parts.street = addr.parts.street
        /\ parts.city = addr.parts.city
        /\ parts.zipCode = addr.parts.zipCode
        /\ StateMatchOf(NormalizeAddress(addr.fullAddress)).ok
             => parts.state = addr.parts.state)

\* the state of the address wins over the label of the text, and for an
\* address without a state the label of the text is the state
C15_Witness ==
  /\ AddressReturned
  /\ addr.ocrText = "State: tx"
  /\ \/ /\ addr.segments = <<"9 OAK", "RENO", "NV 89501">>
        /\ addr.parts.state = "NV"
     \/ /\ addr.segments = <<"9 OAK", "RENO">>
        /\ addr.parts.state = "TX"
        /\ extractAddressParts(addr.fullAddress, "").state = ""
        /\ extractAddressParts(addr.fullAddress, "").street = addr.parts.street

(***************************************************************************)
(* The recovery of the Box 1 wages from the text                           *)
(***************************************************************************)
\* the largest number of lines of a text
MaxLines == 2

\* lines: Box 1 with a positive amount, Box 1 with zero, Box 1 with a
\* capture that is no number, a wages line that a later pattern matches,
\* and one that no pattern matches
WageLines == {"Box 1 900.00", "Box 1 0.00", "1 ,", "Wages and tips 7", "TAX YEAR"}

WageTexts == {Join(lines, "\n") : lines \in SeqsUpTo(WageLines, MaxLines)}

\* the record after structured mapping: without wages, with wages of zero
\* and with positive wages
WageRecords(ocrText) ==
  Let(Put(EmptyObject, "fullText", Str(ocrText)), LAMBDA baseData :
    {baseData, Put(baseData, "wages", Whole(0)), Put(baseData, "wages", Whole(50000))})

\* processW2Fields is about to recover the wages
InitWages ==
  /\ mapPc = "idle"
  /\ mapIn = [result |-> NullResult, documentType |-> ""]
  /\ mapOut = EmptyObject
  /\ call = IdleCall
  /\ env = NoConfig
  /\ azureDocumentIntelligenceService = Null
  /\ instances = 0
  /\ lastGet = NoGet
  /\ mapBase = EmptyObject
  /\ sharedService = NoService
  /\ calls = NoCalls
  /\ addr = NoAddr
  /\ wage \in UNION {{[pc |-> "called", ocrText |-> t, w2Data |-> d,
                        wagesFromOCR |-> Whole(0), record |-> EmptyObject] :
                         d \in WageRecords(t)} : t \in WageTexts}

\* extractWagesFromOCR runs on the text, and the recovery of processW2Fields
\* on the record
RecoverWages ==
  /\ wage.pc = "called"
  /\ wage' = [wage EXCEPT
       !.pc = "returned",
       !.wagesFromOCR = extractWagesFromOCR(wage.ocrText),
       !.record = WagesFallback(wage.w2Data, Put(EmptyObject, "fullText", Str(wage.ocrText)))]
  /\ UNCHANGED <<mapVars, call, singletonVars, sharedVars, addr>>

NextWages == RecoverWages

SpecWages == InitWages /\ [][NextWages]_vars

WagesReturned == wage.pc = "returned"

\* the amount the capture of the i-th wage pattern parses to, NaN without a
\* capture
CaptureAmount(ocrText, i) ==
  Let(Search(ocrText, TRUE, wagePatterns[i]), LAMBDA match :
    IF match.ok /\ Group(ocrText, match, 1) # ""
    THEN ParseFloat(ReplaceAll(Group(ocrText, match, 1), FALSE,
                               Set({",", "$"} \cup Space), ""))
    ELSE NaN)

\* the patterns whose capture parses to a number greater than zero
PositivePatterns(ocrText) ==
  {i \in 1..Len(wagePatterns) :
     Let(CaptureAmount(ocrText, i), LAMBDA amount : amount.t # "nan" /\ Positive(amount))}

\* C16: extractWagesFromOCR returns the amount of the first pattern, in
\* list order, whose capture parses to a number greater than zero, passing
\* over patterns whose capture parses to zero or to no number; when there
\* is no such pattern it returns 0 and the record is left as it was, without
\* a wages key if it had none
C16_FirstPositiveWage ==
  WagesReturned =>
    Let(PositivePatterns(wage.ocrText), LAMBDA hits :
      IF hits = {}
      THEN /\ wage.wagesFromOCR = Whole(0)
           /\ wage.record = wage.w2Data
           /\ ~Has(wage.w2Data, "wages") => ~Has(wage.record, "wages")
      ELSE wage.wagesFromOCR = CaptureAmount(wage.ocrText, Min(hits)))

\* the Box 1 pattern captures zero, a later pattern gives the wages
C16_Witness ==
  /\ WagesReturned
  /\ wage.ocrText = "Box 1 0.00\nWages and tips 7"
  /\ CaptureAmount(wage.ocrText, 5) = Whole(0)
  /\ wage.wagesFromOCR = Whole(7)
  /\ ~Has(wage.w2Data, "wages")
  /\ Get(wage.record, "wages") = Whole(7)

(***************************************************************************)
(* Frame of the orchestrator and of the mappers (SpecMap)                  *)
(***************************************************************************)
\* the record a mapper was handed is the one holding the text only
BaseKept ==
  Returned /\ HasFieldMap =>
    mapBase = Put(EmptyObject, "fullText", OrElse(mapIn.result.content, Str("")))

\* the provider result is after a step what it was before
ResultKept == mapIn' = mapIn

====
